---- MODULE Spec2Model ----
(***************************************************************************)
(* Model of the Standalone MM error-record drivers of edk2-platforms       *)
(* (Platform/ARM/Drivers/CpuMm and Platform/ARM/Drivers/SramMm): the MMI   *)
(* handlers that write a CPER record into the firmware-reserved region of  *)
(* their error source, and the HEST error source descriptor protocol       *)
(* functions that publish that region.                                     *)
(*                                                                         *)
(* Registers and 64-bit fields are sets of bit positions: x & m is the     *)
(* intersection, x | m the union, x >> n moves every bit down by n and     *)
(* drops the bits that fall off.  Byte counts are naturals.                *)
(*                                                                         *)
(* A memory area is a function from its fields to their contents.  Memory  *)
(* the code reads without having assigned it (an uninitialized local, the  *)
(* stack behind a local) holds a value the action draws from the inputs.   *)
(***************************************************************************)
EXTENDS Integers, Sequences, FiniteSets, TLC

VARIABLES
  source,      \* the driver image this behaviour follows: "Cpu", "Sram",
               \* both MM drivers ("Both") or the CXL driver ("Cxl")
  cpuRegion,   \* firmware-reserved memory at PcdCpuErrorDataBase
  sramRegion,  \* firmware-reserved memory at PcdSramErrorDataBase
  call,        \* the last call made into the driver: its arguments, what it
               \* returned and what it left in the caller's memory
  driver,      \* the MM driver's entry point: its position, whether its MMI
               \* handler is registered and its protocol installed
  run,         \* the handler invocations in flight, store by store
  cxl          \* the statics of CxlDxe.c and the position of UpdateCdatData

vars == <<source, cpuRegion, sramRegion, call, driver, run, cxl>>

NULL == "NULL"

-----------------------------------------------------------------------------
(* Bit-level helpers.                                                      *)

BIT(n) == {n}

BitAnd(x, m) == x \cap m

BitOr(x, m) == x \cup m

ShiftRight(x, n) == {b - n : b \in {c \in x : c >= n}}

RECURSIVE ToNat(_)
ToNat(x) ==
  IF x = {} THEN 0
  ELSE LET b == CHOOSE c \in x : TRUE IN 2 ^ b + ToNat(x \ {b})

\* Bit set of a natural below 2^8.
Bits8(n) == {b \in 0..7 : (n \div (2 ^ b)) % 2 = 1}

\* Store into a UINT32 field: the value modulo 2^32, by 16-bit halves.
ToUint32(n) == (n % 65536) + ((n \div 65536) % 65536) * 65536

\* Store into a bit-field of w bits.
ToBitField(n, w) == n % (2 ^ w)

-----------------------------------------------------------------------------
(* EFI status codes.                                                       *)

EFI_SUCCESS == "EFI_SUCCESS"
EFI_INVALID_PARAMETER == "EFI_INVALID_PARAMETER"
EFI_BAD_BUFFER_SIZE == "EFI_BAD_BUFFER_SIZE"
EFI_OUT_OF_RESOURCES == "EFI_OUT_OF_RESOURCES"
EFI_BUFFER_TOO_SMALL == "EFI_BUFFER_TOO_SMALL"

-----------------------------------------------------------------------------
(* Structure sizes in bytes (sizeof), as laid out by the ACPI 6.3/6.4 and  *)
(* UEFI CPER definitions the drivers include.                              *)

SizeofGenericErrorStatus == 20

SizeofGenericErrorDataEntry == 72

SizeofArmProcessorErrorRecord == 40

SizeofArmProcessorErrorInformation == 32

SizeofArmProcessorContextInformation == 264

SizeofPlatformMemoryErrorData == 80

SizeofGhesV2 == 92

SizeofCpuErrInfo == 624

SizeofBoolean == 1

\* ACPI generic error severities.
EFI_ACPI_6_3_ERROR_SEVERITY_CORRECTABLE == 0

EFI_ACPI_6_3_ERROR_SEVERITY_CORRECTED == 2

EFI_ACPI_6_4_ERROR_SEVERITY_FATAL == 1

EFI_ACPI_6_4_ERROR_SEVERITY_CORRECTED == 2

\* ARM processor error information types.
EFI_ARM_PROC_ERROR_TYPE_CACHE == 0

EFI_ARM_PROC_ERROR_TYPE_TLB == 1

\* Section descriptor flag.
EFI_ERROR_SECTION_FLAGS_LATENT_ERROR == BIT(5)

\* ARM processor error information flags.
EFI_ARM_PROC_ERROR_INFO_FIRST_ERROR_CAPTURED_FLAG == BIT(0)

EFI_ARM_PROC_ERROR_INFO_OVERFLOW_FLAG == BIT(3)

-----------------------------------------------------------------------------
(* CpuMm.h                                                                 *)

CPU_ERR_INFO_NUM == 1

CPU_CONTEXT_INFO_NUM == 3

SECURE == 0

NON_SECURE == 1

CPU_SECTION_DATA_SIZE_ALWAYS_FULL(state) ==
  SizeofArmProcessorErrorRecord
    + SizeofArmProcessorErrorInformation * CPU_ERR_INFO_NUM
    + SizeofArmProcessorContextInformation * CPU_CONTEXT_INFO_NUM

CPU_SECTION_DATA_SIZE(state) ==
  SizeofArmProcessorErrorRecord
    + SizeofArmProcessorErrorInformation * CPU_ERR_INFO_NUM
    + (SizeofArmProcessorContextInformation * CPU_CONTEXT_INFO_NUM) * state

SizeofCpuErrSectionData ==
  SizeofArmProcessorErrorRecord
    + SizeofArmProcessorErrorInformation * CPU_ERR_INFO_NUM
    + SizeofArmProcessorContextInformation * CPU_CONTEXT_INFO_NUM

CPU_ERR_STATUS_SERR_MASK == 0..7

CPU_ERR_STATUS_DE_BIT == BIT(23)

CPU_ERR_STATUS_CE_MASK == BIT(24) \cup BIT(25)

CPU_ERR_STATUS_OF_BIT == BIT(27)

CPU_ERR_STATUS_SERR_TLB == 8

CPU_ERR_MISC0_LVL_MASK == BIT(1) \cup BIT(2) \cup BIT(3)

CPU_ERR_MISC0_LVL_SHIFT == 1

CPU_ERR_MISC0_CECR_COUNT_MASK == 32..39

CPU_ERR_MISC0_CECR_COUNT_SHIFT == 32

ErrorStatusRegisterOffset == 8

ErrorStatusDataOffset == 16

\* CpuMm.h: ErrorStatusDataOffset + sizeof (CPU_ERR_SECTION_DATA)
CpuReadAckDataOffset == ErrorStatusDataOffset + SizeofCpuErrSectionData

\* SramMm.h: ErrorStatusDataOffset + sizeof (EFI_PLATFORM_MEMORY_ERROR_DATA)
SramReadAckDataOffset == ErrorStatusDataOffset + SizeofPlatformMemoryErrorData

-----------------------------------------------------------------------------
(* Memory contents.                                                        *)

\* A field that ZeroMem/SetMem cleared and nothing wrote since.
ZeroBytes == [kind |-> "zero"]

\* Bytes of the handler's stack that the code never assigned.
StackBytes(stack) == [kind |-> "stack", val |-> stack]

\* A physical address: a PCD base plus a byte offset.
Addr(base, off) == [base |-> base, off |-> off]

NullAddr == Addr("null", 0)

ZeroHeader ==
  [UncorrectableErrorValid |-> 0, CorrectableErrorValid |-> 0,
   MultipleUncorrectableErrors |-> 0, MultipleCorrectableErrors |-> 0,
   ErrorDataEntryCount |-> 0, RawDataOffset |-> 0, RawDataLength |-> 0,
   DataLength |-> 0, ErrorSeverity |-> 0]

ZeroDesc ==
  [SectionType |-> "zero", ErrorSeverity |-> 0, Revision |-> "zero",
   ValidationBits |-> 0, Flags |-> {}, ErrorDataLength |-> 0]

\* The fields of CPU_ERR_SECTION_DATA, and Beyond: what lies behind it.
CpuPayloadFields == {"CpuInfo", "CpuErrInfo", "Ctx0", "Ctx1", "Ctx2", "Beyond"}

FieldOffset(f) ==
  CASE f = "CpuInfo" -> 0
    [] f = "CpuErrInfo" -> SizeofArmProcessorErrorRecord
    [] f = "Ctx0" -> SizeofArmProcessorErrorRecord
                       + SizeofArmProcessorErrorInformation
    [] f = "Ctx1" -> SizeofArmProcessorErrorRecord
                       + SizeofArmProcessorErrorInformation
                       + SizeofArmProcessorContextInformation
    [] f = "Ctx2" -> SizeofArmProcessorErrorRecord
                       + SizeofArmProcessorErrorInformation
                       + SizeofArmProcessorContextInformation * 2
    [] f = "Beyond" -> SizeofCpuErrSectionData

ZeroCpuRegion ==
  [ReadAckRegister |-> NullAddr, ErrorStatusRegister |-> NullAddr,
   Header |-> ZeroHeader, Desc |-> ZeroDesc,
   Payload |-> [f \in CpuPayloadFields |-> ZeroBytes]]

ZeroSramRegion ==
  [ReadAckRegister |-> NullAddr, ErrorStatusRegister |-> NullAddr,
   Header |-> ZeroHeader, Desc |-> ZeroDesc,
   Payload |-> ZeroBytes]

\* The layout of a firmware reserved region: the pointer slot that starts at
\* a byte offset below the error status data.
SlotAt(off) ==
  IF off = ErrorStatusRegisterOffset THEN "ErrorStatusRegister"
  ELSE "ReadAckRegister"

CpuErrStatusBlockAtRegister ==
  Addr("PcdCpuErrorDataBase", ErrorStatusRegisterOffset)

\* ErrStatusBlock =
\*   (UINTN *)(FixedPcdGet64 (PcdCpuErrorDataBase) + ErrorStatusDataOffset)
CpuErrStatusBlock == Addr("PcdCpuErrorDataBase", ErrorStatusDataOffset)

SramErrStatusBlockInCpuRegion ==
  Addr("PcdCpuErrorDataBase", ErrorStatusDataOffset)

\* ErrStatusBlock =
\*   (UINTN *)(FixedPcdGet64 (PcdSramErrorDataBase) + ErrorStatusDataOffset)
SramErrStatusBlock == Addr("PcdSramErrorDataBase", ErrorStatusDataOffset)

\* Where a handler stores: the header at ErrStatusBlock, the section
\* descriptor at ErrBlockStatusHeaderData + 1 and Length bytes of section
\* data at ErrBlockSectionDesc + 1.
HandlerStores(ErrStatusBlock, Length) ==
  <<[field |-> "Header", addr |-> ErrStatusBlock,
     len |-> SizeofGenericErrorStatus],
    [field |-> "Desc",
     addr |-> Addr(ErrStatusBlock.base,
                   ErrStatusBlock.off + SizeofGenericErrorStatus),
     len |-> SizeofGenericErrorDataEntry],
    [field |-> "Payload",
     addr |-> Addr(ErrStatusBlock.base,
                   ErrStatusBlock.off + SizeofGenericErrorStatus
                     + SizeofGenericErrorDataEntry),
     len |-> Length]>>

-----------------------------------------------------------------------------
(* CpuMm.c: CpuErrorEventHandler, the record it builds from a CPU_ERR_INFO. *)

\* UINT8 CorrectedError = 1;
CorrectedError == 1

CpuIsCorrectable(ErrStatus) == BitAnd(ErrStatus, CPU_ERR_STATUS_CE_MASK) # {}

CpuUncorrectableErrorValid == IF CorrectedError = 0 THEN 0 ELSE 1

CpuCorrectableErrorValid(ErrStatus) == IF CpuIsCorrectable(ErrStatus) THEN 1 ELSE 0

CpuErrorSeverity(ErrStatus) ==
  IF CpuIsCorrectable(ErrStatus)
  THEN EFI_ACPI_6_3_ERROR_SEVERITY_CORRECTED
  ELSE EFI_ACPI_6_3_ERROR_SEVERITY_CORRECTABLE

\* ErrBlockSectionDesc->Flags |= ...: the flags already in memory are kept.
CpuDescFlags(oldFlags, ErrStatus) ==
  IF CpuIsCorrectable(ErrStatus)
  THEN IF BitAnd(ErrStatus, CPU_ERR_STATUS_OF_BIT) # {}
       THEN BitOr(oldFlags, BIT(7))
       ELSE oldFlags
  ELSE IF BitAnd(ErrStatus, CPU_ERR_STATUS_DE_BIT) # {}
       THEN BitOr(oldFlags, EFI_ERROR_SECTION_FLAGS_LATENT_ERROR)
       ELSE oldFlags

CpuDataLengthNoDescriptor(snap) ==
  ToUint32(CPU_SECTION_DATA_SIZE(snap.SecurityState))

\* UINT32 DataLength
CpuDataLength(snap) ==
  ToUint32(SizeofGenericErrorDataEntry
             + CPU_SECTION_DATA_SIZE(snap.SecurityState))

CpuHeader(old, snap) ==
  [old EXCEPT
     !.UncorrectableErrorValid = CpuUncorrectableErrorValid,
     !.CorrectableErrorValid = CpuCorrectableErrorValid(snap.ErrStatus),
     !.MultipleUncorrectableErrors = 0,
     !.MultipleCorrectableErrors = 0,
     !.ErrorDataEntryCount = 1,
     !.RawDataOffset =
        ToUint32(SizeofGenericErrorStatus + SizeofGenericErrorDataEntry),
     !.RawDataLength = 0,
     !.DataLength = CpuDataLength(snap),
     !.ErrorSeverity = CpuErrorSeverity(snap.ErrStatus)]

CpuDesc(old, snap) ==
  [old EXCEPT
     !.ErrorSeverity = CpuErrorSeverity(snap.ErrStatus),
     !.Revision = "EFI_ACPI_6_3_GENERIC_ERROR_DATA_ENTRY_REVISION",
     !.ValidationBits = 0,
     !.Flags = CpuDescFlags(old.Flags, snap.ErrStatus),
     !.ErrorDataLength = ToUint32(CPU_SECTION_DATA_SIZE(snap.SecurityState)),
     !.SectionType = "EFI_ERROR_SECTION_PROCESSOR_SPECIFIC_ARM_GUID"]

CpuInfo(snap, stack) ==
  [ValidFields |-> {"EFI_ARM_PROC_ERROR_MPIDR_VALID",
                    "EFI_ARM_PROC_ERROR_RUNNING_STATE_VALID"},
   ErrInfoNum |-> CPU_ERR_INFO_NUM,
   ContextInfoNum |-> CPU_CONTEXT_INFO_NUM,
   SectionLength |-> ToUint32(CPU_SECTION_DATA_SIZE(snap.SecurityState)),
   ErrorAffinityLevel |-> StackBytes(stack),
   MPIDR_EL1 |-> snap.ErrCtxEl1Reg.MPIDR_EL1,
   MIDR_EL1 |-> snap.ErrCtxEl1Reg.MIDR_EL1,
   RunState |-> 1,
   PsciState |-> 0]

\* UINT16 ErrorCount
ErrorCount(ErrMisc0) ==
  ToNat(ShiftRight(BitAnd(ErrMisc0, CPU_ERR_MISC0_CECR_COUNT_MASK),
                   CPU_ERR_MISC0_CECR_COUNT_SHIFT)) % 65536

CpuErrorTypeInclusive(ErrStatus) ==
  IF ToNat(BitAnd(ErrStatus, CPU_ERR_STATUS_SERR_MASK)) <= CPU_ERR_STATUS_SERR_TLB
  THEN EFI_ARM_PROC_ERROR_TYPE_CACHE
  ELSE EFI_ARM_PROC_ERROR_TYPE_TLB

\* UINT8 ErrorType
CpuErrorType(ErrStatus) ==
  IF ToNat(BitAnd(ErrStatus, CPU_ERR_STATUS_SERR_MASK)) < CPU_ERR_STATUS_SERR_TLB
  THEN EFI_ARM_PROC_ERROR_TYPE_CACHE
  ELSE EFI_ARM_PROC_ERROR_TYPE_TLB

\* The Cache branch shifts by CPU_ERR_MISC0_LVL_SHIFT.
CacheErrorInfo(snap, stack) ==
  [ValidFields |-> {"EFI_TLB_ERROR_TRANSACTION_TYPE_VALID",
                    "EFI_TLB_ERROR_OPERATION_VALID",
                    "EFI_CACHE_ERROR_LEVEL_VALID",
                    "EFI_CACHE_ERROR_PROCESSOR_CONTEXT_CORRUPT_VALID",
                    "EFI_CACHE_ERROR_CORRECTED_VALID"},
   TransactionType |-> "EFI_CACHE_ERROR_TYPE_GENERIC",
   Operation |-> "EFI_CACHE_ERROR_OPERATION_GENERIC_ERROR",
   Level |-> ToBitField(
               ToNat(ShiftRight(BitAnd(snap.ErrMisc0, CPU_ERR_MISC0_LVL_MASK),
                                CPU_ERR_MISC0_LVL_SHIFT)), 3),
   ContextCorrupt |-> 0,
   ErrorCorrected |-> IF CpuIsCorrectable(snap.ErrStatus) THEN 1 ELSE 0,
   PrecisePc |-> 0,
   RestartablePc |-> 0,
   Reserved |-> StackBytes(stack)]

\* The TLB branch shifts by CPU_ERR_MISC0_LVL_MASK (14), as the code does.
TlbErrorInfo(snap, stack) ==
  [ValidFields |-> {"EFI_TLB_ERROR_TRANSACTION_TYPE_VALID",
                    "EFI_TLB_ERROR_OPERATION_VALID",
                    "EFI_TLB_ERROR_LEVEL_VALID",
                    "EFI_TLB_ERROR_PROCESSOR_CONTEXT_CORRUPT_VALID",
                    "EFI_TLB_ERROR_CORRECTED_VALID"},
   TransactionType |-> "EFI_TLB_ERROR_TYPE_GENERIC",
   Operation |-> "EFI_TLB_ERROR_OPERATION_GENERIC_ERROR",
   Level |-> ToBitField(
               ToNat(ShiftRight(BitAnd(snap.ErrMisc0, CPU_ERR_MISC0_LVL_MASK),
                                ToNat(CPU_ERR_MISC0_LVL_MASK))), 3),
   ContextCorrupt |-> 0,
   ErrorCorrected |-> IF CpuIsCorrectable(snap.ErrStatus) THEN 1 ELSE 0,
   PrecisePc |-> 0,
   RestartablePc |-> 0,
   Reserved |-> StackBytes(stack)]

CpuErrInfo(snap, stack) ==
  [Version |-> "EFI_ARM_PROCESSOR_ERROR_INFO_STRUCTURE_REVISION",
   Length |-> SizeofArmProcessorErrorInformation,
   ValidFields |-> {"EFI_ARM_PROC_ERROR_INFO_MULTIPLE_ERROR_VALID",
                    "EFI_ARM_PROC_ERROR_INFO_FLAGS_VALID",
                    "EFI_ARM_PROC_ERROR_INFO_ERROR_INFO_VALID",
                    "EFI_ARM_PROC_ERROR_INFO_PHY_FAULT_ADDR_VALID"},
   Type |-> CpuErrorType(snap.ErrStatus),
   MultipleError |->
     IF BitAnd(snap.ErrStatus, CPU_ERR_STATUS_DE_BIT) # {}
     THEN 0
     ELSE ErrorCount(snap.ErrMisc0),
   Flags |->
     IF CpuIsCorrectable(snap.ErrStatus)
     THEN EFI_ARM_PROC_ERROR_INFO_OVERFLOW_FLAG
     ELSE EFI_ARM_PROC_ERROR_INFO_FIRST_ERROR_CAPTURED_FLAG,
   VirtualFaultAddress |-> {},
   PhysicalFaultAddress |-> snap.ErrAddr,
   ErrorInfo |->
     IF CpuErrorType(snap.ErrStatus) = EFI_ARM_PROC_ERROR_TYPE_CACHE
     THEN CacheErrorInfo(snap, stack)
     ELSE TlbErrorInfo(snap, stack)]

\* CpuContextInfo[i]: assigned only when SecurityState == NON_SECURE.  The
\* register array is a union; the bytes behind the copied registers keep
\* what the stack held.
CpuContextInfo(snap, stack, i) ==
  IF snap.SecurityState = NON_SECURE
  THEN [Version |-> 0,
        RegisterContextType |->
          CASE i = 0 -> "EFI_REG_CONTEXT_TYPE_4"
            [] i = 1 -> "EFI_REG_CONTEXT_TYPE_5"
            [] i = 2 -> "EFI_REG_CONTEXT_TYPE_6",
        RegisterArraySize |-> "sizeof (EFI_CONTEXT_REGISTER_ARRAY_INFO)",
        RegisterArray |->
          CASE i = 0 -> snap.ErrCtxGpr
            [] i = 1 -> snap.ErrCtxEl1Reg
            [] i = 2 -> snap.ErrCtxEl2Reg,
        Rest |-> StackBytes(stack)]
  ELSE StackBytes(stack)

\* The local CPU_ERR_SECTION_DATA SectionData when it is copied out, and the
\* stack behind it.
SectionData(snap, stack) ==
  [f \in CpuPayloadFields |->
     CASE f = "CpuInfo" -> CpuInfo(snap, stack)
       [] f = "CpuErrInfo" -> CpuErrInfo(snap, stack)
       [] f = "Ctx0" -> CpuContextInfo(snap, stack, 0)
       [] f = "Ctx1" -> CpuContextInfo(snap, stack, 1)
       [] f = "Ctx2" -> CpuContextInfo(snap, stack, 2)
       [] f = "Beyond" -> StackBytes(stack)]

\* CopyMem (ErrBlockSectionData, &SectionData, Length): the fields that start
\* below Length are overwritten, the others keep what the region held.
CpuCopyMem(oldPayload, src, Length) ==
  [f \in CpuPayloadFields |->
     IF FieldOffset(f) < Length THEN src[f] ELSE oldPayload[f]]

CpuCopyLengthFull(snap) == SizeofCpuErrSectionData

\* The Length argument of the final CopyMem.
CpuCopyLength(snap) == CPU_SECTION_DATA_SIZE(snap.SecurityState)

CpuRecord(region, snap, stack) ==
  [region EXCEPT
     !.Header = CpuHeader(region.Header, snap),
     !.Desc = CpuDesc(region.Desc, snap),
     !.Payload = CpuCopyMem(region.Payload, SectionData(snap, stack),
                            CpuCopyLength(snap))]

-----------------------------------------------------------------------------
(* The calls made into the drivers.                                        *)

NoCall == [op |-> "none", Status |-> "none"]

NoBuffer == [ptr |-> NULL]

\* Largest SecurityState value delivered in a CPU_ERR_INFO.
MaxSecurityState == 2

\* ErrStatus register values: SERR 0x00, 0x07, 0x08 and 0xFF under the CE
\* (24, 25), DE (23), OF (27) and V (30) bits.
ErrStatusValues ==
  {BitOr(Bits8(7), {}), BitOr(Bits8(8), {}),
   BitOr(Bits8(0), {24}),
   BitOr(Bits8(255), {25, 30}),
   BitOr(Bits8(7), {24, 27}),
   BitOr(Bits8(8), {23}),
   BitOr(Bits8(7), {23, 24}),
   BitOr(Bits8(8), {27})}

\* What the platform captured besides ErrStatus: ErrMisc0 (cache level in
\* bits 1-3, corrected error count in bits 32-39), ErrAddr and the register
\* context, whose El1 array holds MPIDR_EL1 and MIDR_EL1.
Captures ==
  {[ErrMisc0 |-> {1, 2}, ErrAddr |-> {}, ctx |-> "ctxA"],
   [ErrMisc0 |-> {3, 32}, ErrAddr |-> {12, 40}, ctx |-> "ctxB"]}

SecurityStates == 0..MaxSecurityState

StackValues == {"stackA", "stackB"}

\* CPU_ERR_INFO
Snapshots ==
  {[ErrStatus |-> es, ErrMisc0 |-> r.ErrMisc0, ErrAddr |-> r.ErrAddr,
    SecurityState |-> st,
    ErrCtxGpr |-> <<"Gpr", r.ctx>>,
    ErrCtxEl1Reg |-> [MPIDR_EL1 |-> <<"MPIDR_EL1", r.ctx>>,
                      MIDR_EL1 |-> <<"MIDR_EL1", r.ctx>>,
                      Other |-> <<"El1", r.ctx>>],
    ErrCtxEl2Reg |-> <<"El2", r.ctx>>,
    ErrCtxEl3Reg |-> <<"El3", r.ctx>>] :
     es \in ErrStatusValues, r \in Captures, st \in SecurityStates}

CommBuffer(s) == [ptr |-> "CommBuffer", data |-> s]

\* The MMI deliveries: every snapshot in a buffer of sizeof (CPU_ERR_INFO)
\* bytes, a buffer one byte short, and no buffer at all.
CpuDeliveries ==
  {[Buffer |-> CommBuffer(s), BufferSize |-> SizeofCpuErrInfo, stack |-> st] :
     s \in Snapshots, st \in StackValues}
  \cup {[Buffer |-> CommBuffer(CHOOSE s \in Snapshots : TRUE),
         BufferSize |-> SizeofCpuErrInfo - 1, stack |-> "stackA"]}
  \cup {[Buffer |-> NoBuffer, BufferSize |-> n, stack |-> "stackA"] :
          n \in {SizeofCpuErrInfo - 1, SizeofCpuErrInfo}}

CpuBufferTooSmallNever(CpuBufferSize) == FALSE

\* *CpuBufferSize < sizeof (CPU_ERR_INFO)
CpuBufferTooSmall(CpuBufferSize) == CpuBufferSize < SizeofCpuErrInfo

CpuErrorEventHandler(CpuBuffer, CpuBufferSize, stack) ==
  /\ source = "Cpu"
  /\ driver.pc = "returned" /\ driver.handler
  /\ IF CpuBuffer.ptr = NULL
     THEN /\ call' = [op |-> "CpuErrorEventHandler",
                      Status |-> EFI_INVALID_PARAMETER,
                      Buffer |-> NoBuffer, BufferSizeIn |-> CpuBufferSize,
                      BufferSize |-> CpuBufferSize, mmio |-> << >>]
          /\ UNCHANGED cpuRegion
     ELSE IF CpuBufferTooSmall(CpuBufferSize)
     THEN /\ call' = [op |-> "CpuErrorEventHandler",
                      Status |-> EFI_BAD_BUFFER_SIZE,
                      Buffer |-> [ptr |-> CpuBuffer.ptr],
                      BufferSizeIn |-> CpuBufferSize,
                      BufferSize |-> CpuBufferSize, mmio |-> << >>]
          /\ UNCHANGED cpuRegion
     ELSE /\ cpuRegion' = CpuRecord(cpuRegion, CpuBuffer.data, stack)
          /\ call' = [op |-> "CpuErrorEventHandler",
                      Status |-> EFI_SUCCESS,
                      Buffer |-> CpuBuffer, BufferSizeIn |-> CpuBufferSize,
                      BufferSize |-> 0, stack |-> stack,
                      CopyLength |-> CpuCopyLength(CpuBuffer.data),
                      stores |-> HandlerStores(CpuErrStatusBlock,
                                               CpuCopyLength(CpuBuffer.data)),
                      mmio |-> << >>]
  /\ UNCHANGED <<source, sramRegion, driver, run, cxl>>

-----------------------------------------------------------------------------
(* SramMm.h, SramMm.c: SramErrorHandler and SramErrorEventMmiHandler.      *)

ERRSTATUS == 0

ERRCODE == 8

ERRADDR == 12

ECC_ERR_STATUS_CE_BIT == BIT(0)

ECC_ERR_STATUS_UE_BIT == BIT(1)

ECC_ERR_CODE_MBIT_TYPE_MASK == BIT(4) \cup BIT(3)

ECC_ERR_CODE_MBIT_TYPE_SHIFT == 3

ECC_ERR_CODE_MBIT_CE_ERR == 1

ECC_ERR_CODE_MBIT_UE_ERR == 2

\* What the uninitialized BOOLEAN locals CorrectedError, UncorrectableError,
\* MultibitCE and MultibitUE hold when SramErrorHandler is entered.
SramStackFrames ==
  {[CorrectedError |-> 0, UncorrectableError |-> 0, MultibitCE |-> 0, MultibitUE |-> 0],
   [CorrectedError |-> 1, UncorrectableError |-> 1, MultibitCE |-> 1, MultibitUE |-> 1],
   [CorrectedError |-> 1, UncorrectableError |-> 0, MultibitCE |-> 2, MultibitUE |-> 1],
   [CorrectedError |-> 0, UncorrectableError |-> 1, MultibitCE |-> 1, MultibitUE |-> 2]}

\* BOOLEAN CorrectedError: assigned only when the CE bit is set.
SramCorrectedError(ErrStatus, frame) ==
  IF BitAnd(ErrStatus, ECC_ERR_STATUS_CE_BIT) # {} THEN 1 ELSE frame.CorrectedError

\* BOOLEAN UncorrectableError: assigned only when CE is clear and UE is set.
SramUncorrectableError(ErrStatus, frame) ==
  IF BitAnd(ErrStatus, ECC_ERR_STATUS_CE_BIT) # {}
  THEN frame.UncorrectableError
  ELSE IF BitAnd(ErrStatus, ECC_ERR_STATUS_UE_BIT) # {}
       THEN 1
       ELSE frame.UncorrectableError

\* UINT32 MultibitError = (ErrCode >> SHIFT) & MASK, the mask not shifted.
MultibitError(ErrCode) ==
  ToNat(BitAnd(ShiftRight(ErrCode, ECC_ERR_CODE_MBIT_TYPE_SHIFT),
               ECC_ERR_CODE_MBIT_TYPE_MASK))

\* BOOLEAN MultibitCE, MultibitUE: assigned only when ErrCode != 0.
SramMultibitCE(ErrCode, frame) ==
  IF ErrCode # {}
  THEN IF MultibitError(ErrCode) = ECC_ERR_CODE_MBIT_CE_ERR THEN 1 ELSE 0
  ELSE frame.MultibitCE

SramMultibitUE(ErrCode, frame) ==
  IF ErrCode # {}
  THEN IF MultibitError(ErrCode) = ECC_ERR_CODE_MBIT_UE_ERR THEN 1 ELSE 0
  ELSE frame.MultibitUE

SramErrorSeverity(ErrStatus, frame) ==
  IF SramCorrectedError(ErrStatus, frame) # 0
  THEN EFI_ACPI_6_4_ERROR_SEVERITY_CORRECTED
  ELSE EFI_ACPI_6_4_ERROR_SEVERITY_FATAL

SramHeader(old, regs, frame) ==
  [old EXCEPT
     !.UncorrectableErrorValid =
        IF SramUncorrectableError(regs.ErrStatus, frame) # 0 THEN 1 ELSE 0,
     !.CorrectableErrorValid =
        IF SramCorrectedError(regs.ErrStatus, frame) # 0 THEN 1 ELSE 0,
     !.MultipleUncorrectableErrors =
        ToBitField(SramMultibitUE(regs.ErrCode, frame), 1),
     !.MultipleCorrectableErrors =
        ToBitField(SramMultibitCE(regs.ErrCode, frame), 1),
     !.ErrorDataEntryCount = 1,
     !.RawDataOffset =
        ToUint32(SizeofGenericErrorStatus + SizeofGenericErrorDataEntry),
     !.RawDataLength = 0,
     !.DataLength =
        ToUint32(SizeofGenericErrorDataEntry + SizeofPlatformMemoryErrorData),
     !.ErrorSeverity = SramErrorSeverity(regs.ErrStatus, frame)]

SramDesc(old, regs, frame) ==
  [old EXCEPT
     !.ErrorSeverity = SramErrorSeverity(regs.ErrStatus, frame),
     !.Revision = "EFI_ACPI_6_4_GENERIC_ERROR_DATA_ENTRY_REVISION",
     !.ValidationBits = 0,
     !.Flags = {},
     !.ErrorDataLength = ToUint32(SizeofPlatformMemoryErrorData),
     !.SectionType = "EFI_ERROR_SECTION_PLATFORM_MEMORY_GUID"]

\* EFI_PLATFORM_MEMORY_ERROR_DATA MemorySectionInfo, after ZeroMem; the
\* UINT32 ErrAddr is widened to the UINT64 PhysicalAddress.
MemorySectionInfo(regs) ==
  [ValidFields |-> {"EFI_PLATFORM_MEMORY_PHY_ADDRESS_MASK_VALID",
                    "EFI_PLATFORM_MEMORY_PHY_ADDRESS_VALID"},
   PhysicalAddressMask |-> 0..47,
   PhysicalAddress |-> BitAnd(regs.ErrAddr, 0..31),
   Rest |-> ZeroBytes]

\* The Length argument of the final CopyMem.
SramCopyLength == SizeofPlatformMemoryErrorData

SramRecord(region, regs, frame) ==
  [region EXCEPT
     !.Header = SramHeader(region.Header, regs, frame),
     !.Desc = SramDesc(region.Desc, regs, frame),
     !.Payload = MemorySectionInfo(regs)]

\* The MMIO accesses of SramErrorHandler, in order.
SramMmio(SramEccRecordBase, regs) ==
  <<[op |-> "MmioRead32", addr |-> Addr(SramEccRecordBase, ERRSTATUS), val |-> regs.ErrStatus],
    [op |-> "MmioRead32", addr |-> Addr(SramEccRecordBase, ERRCODE), val |-> regs.ErrCode],
    [op |-> "MmioRead32", addr |-> Addr(SramEccRecordBase, ERRADDR), val |-> regs.ErrAddr],
    [op |-> "MmioRead32", addr |-> Addr(SramEccRecordBase, ERRSTATUS), val |-> regs.ClearStatus],
    [op |-> "MmioWrite32", addr |-> Addr(SramEccRecordBase, ERRSTATUS), val |-> regs.ClearStatus]>>

\* What the error record registers return to the handler's four reads; a
\* further error may be latched between the two reads of ERRSTATUS.
SramRegisterReads ==
  {[ErrStatus |-> es, ErrCode |-> ec, ErrAddr |-> x.ErrAddr,
    ClearStatus |-> BitOr(es, x.Latched)] :
     es \in {{}, {0}, {1}, {0, 1, 2}},
     ec \in {{}, {0, 3}, {1, 4}},
     x \in {[ErrAddr |-> {}, Latched |-> {}],
            [ErrAddr |-> {5, 31}, Latched |-> {1}]}}

\* BOOLEAN IsNonSecureSram = *(UINTN *)SramBuffer; compared with TRUE.
IsNonSecureSram(value) == (value % 256) = 1

SramEccRecordBase(value) ==
  IF IsNonSecureSram(value)
  THEN "PcdSramNonSecureEccRecordBase"
  ELSE "PcdSramSecureEccRecordBase"

\* The MMI deliveries: the UINTN discriminant in a buffer, a buffer of no
\* bytes, and no buffer at all.
SramDeliveries ==
  {[Buffer |-> CommBuffer(v), BufferSize |-> 8] : v \in {0, 1, 257}}
  \cup {[Buffer |-> CommBuffer(1), BufferSize |-> n] : n \in {0, SizeofBoolean}}
  \cup {[Buffer |-> NoBuffer, BufferSize |-> 8]}

\* *SramBufferSize < sizeof (BOOLEAN)
SramBufferTooSmall(SramBufferSize) == SramBufferSize < SizeofBoolean

SramErrorEventMmiHandler(SramBuffer, SramBufferSize, regs, frame) ==
  /\ source = "Sram"
  /\ driver.pc = "returned" /\ driver.handler
  /\ IF SramBuffer.ptr = NULL
     THEN /\ call' = [op |-> "SramErrorEventMmiHandler",
                      Status |-> EFI_INVALID_PARAMETER,
                      Buffer |-> NoBuffer, BufferSizeIn |-> SramBufferSize,
                      BufferSize |-> SramBufferSize, mmio |-> << >>]
          /\ UNCHANGED sramRegion
     ELSE IF SramBufferTooSmall(SramBufferSize)
     THEN /\ call' = [op |-> "SramErrorEventMmiHandler",
                      Status |-> EFI_BAD_BUFFER_SIZE,
                      Buffer |-> [ptr |-> SramBuffer.ptr],
                      BufferSizeIn |-> SramBufferSize,
                      BufferSize |-> SramBufferSize, mmio |-> << >>]
          /\ UNCHANGED sramRegion
     ELSE /\ sramRegion' = SramRecord(sramRegion, regs, frame)
          /\ call' = [op |-> "SramErrorEventMmiHandler",
                      Status |-> EFI_SUCCESS,
                      Buffer |-> SramBuffer, BufferSizeIn |-> SramBufferSize,
                      BufferSize |-> 0, regs |-> regs,
                      CopyLength |-> SramCopyLength,
                      stores |-> HandlerStores(SramErrStatusBlock, SramCopyLength),
                      mmio |-> SramMmio(SramEccRecordBase(SramBuffer.data), regs)]
  /\ UNCHANGED <<source, cpuRegion, driver, run, cxl>>

-----------------------------------------------------------------------------
(* CpuMmErrorSourceInfo.c, SramMmErrorSourceInfo.c: the HEST error source   *)
(* descriptor protocol.                                                     *)

\* FixedPcdGet (PcdCpuErrorSourceCount), FixedPcdGet (PcdSramErrorSourceCount):
\* the number of error sources each driver publishes, one per driver here.
PcdCpuErrorSourceCount == 1

PcdSramErrorSourceCount == 1

\* The arguments of a descriptor-get call: Buffer is NULL or designates
\* caller memory of cap bytes; the two output pointers are NULL or designate
\* caller variables.
DescCalls ==
  {[Buffer |-> NoBuffer, LengthPtr |-> "valid", CountPtr |-> "valid"],
   [Buffer |-> NoBuffer, LengthPtr |-> NULL, CountPtr |-> "valid"],
   [Buffer |-> [ptr |-> "Buffer", cap |-> SizeofGhesV2], LengthPtr |-> "valid",
    CountPtr |-> NULL]}
  \cup {[Buffer |-> [ptr |-> "Buffer", cap |-> c], LengthPtr |-> "valid",
         CountPtr |-> "valid"] : c \in {SizeofGhesV2 - 1, SizeofGhesV2}}

CpuErrorDescriptor ==
  [Type |-> "EFI_ACPI_6_4_GENERIC_HARDWARE_ERROR_VERSION_2",
   SourceId |-> "PcdCpuErrorSourceId",
   RelatedSourceId |-> 65535,
   Flags |-> 0,
   Enabled |-> 1,
   NumberOfRecordsToPreAllocate |-> 1,
   MaxSectionsPerRecord |-> 1,
   MaxRawDataLength |-> ToUint32(CPU_SECTION_DATA_SIZE(NON_SECURE)),
   ErrorStatusAddress |-> Addr("PcdCpuErrorDataBase", ErrorStatusRegisterOffset),
   NotificationStructure |->
     [Type |-> "SOFTWARE_DELEGATED_EXCEPTION", Vector |-> "PcdCpuErrorSdeiEventBase"],
   ErrorStatusBlockLength |->
     ToUint32(SizeofGenericErrorStatus + SizeofGenericErrorDataEntry
                + CPU_SECTION_DATA_SIZE(NON_SECURE)),
   ReadAckRegister |-> Addr("PcdCpuErrorDataBase", 0),
   ReadAckPreserve |-> 0,
   ReadAckWrite |-> 0]

SramErrorDescriptor ==
  [Type |-> "EFI_ACPI_6_4_GENERIC_HARDWARE_ERROR_VERSION_2",
   SourceId |-> "PcdSramErrorSourceId",
   RelatedSourceId |-> 65535,
   Flags |-> 0,
   Enabled |-> 1,
   NumberOfRecordsToPreAllocate |-> 1,
   MaxSectionsPerRecord |-> 1,
   MaxRawDataLength |-> ToUint32(SizeofPlatformMemoryErrorData),
   ErrorStatusAddress |-> Addr("PcdSramErrorDataBase", ErrorStatusRegisterOffset),
   NotificationStructure |->
     [Type |-> "SOFTWARE_DELEGATED_EXCEPTION", Vector |-> "PcdSramErrorSdeiEventBase"],
   ErrorStatusBlockLength |->
     ToUint32(SizeofGenericErrorStatus + SizeofGenericErrorDataEntry
                + SizeofPlatformMemoryErrorData),
   ReadAckRegister |-> Addr("PcdSramErrorDataBase", 0),
   ReadAckPreserve |-> 0,
   ReadAckWrite |-> 0]

\* SetMem (base, size, 0), then *ErrorStatusRegister = base + ErrorStatusDataOffset.
CpuRegionInit ==
  [ZeroCpuRegion EXCEPT
     ![SlotAt(ErrorStatusRegisterOffset)] =
        Addr("PcdCpuErrorDataBase", ErrorStatusDataOffset)]

SramRegionInit ==
  [ZeroSramRegion EXCEPT
     ![SlotAt(ErrorStatusRegisterOffset)] =
        Addr("PcdSramErrorDataBase", ErrorStatusDataOffset)]

\* The caller's buffer before a call, and after a descriptor was stored in
\* it.  The function receives no capacity: it stores all sizeof (GHESv2)
\* bytes of one descriptor whatever memory the caller set aside.
CallerBuffer(Buffer) ==
  [cap |-> Buffer.cap, Written |-> 0, Descriptor |-> ZeroBytes]

FilledBufferWithinCapacity(Buffer, descriptor) ==
  IF Buffer.cap < SizeofGhesV2
  THEN [cap |-> Buffer.cap, Written |-> 0, Descriptor |-> ZeroBytes]
  ELSE [cap |-> Buffer.cap, Written |-> SizeofGhesV2, Descriptor |-> descriptor]

FilledBuffer(Buffer, descriptor) ==
  [cap |-> Buffer.cap, Written |-> SizeofGhesV2, Descriptor |-> descriptor]

\* What tells the two drivers' descriptor-get functions apart.
CpuDriver ==
  [name |-> "CpuErrorSourceDescInfoGet", count |-> PcdCpuErrorSourceCount,
   descriptor |-> CpuErrorDescriptor, regionInit |-> CpuRegionInit]

SramDriver ==
  [name |-> "SramErrorSourceDescInfoGet", count |-> PcdSramErrorSourceCount,
   descriptor |-> SramErrorDescriptor, regionInit |-> SramRegionInit]

DescInvalidParameterLengthOnly(args) == args.LengthPtr = NULL

\* ErrorSourcesLength == NULL || ErrorSourcesCount == NULL
DescInvalidParameter(args) == args.LengthPtr = NULL \/ args.CountPtr = NULL

ErrorSourcesLengthOfCount(drv) == drv.count

\* *ErrorSourcesLength = count * sizeof (GHESv2 descriptor)
ErrorSourcesLength(drv) == drv.count * SizeofGhesV2

\* One descriptor-get call of either driver; lengthIn is what the caller's
\* length variable held.
ErrorSourceDescInfoGet(drv, args, lengthIn, region, regionNext) ==
  IF DescInvalidParameter(args)
  THEN /\ call' = [op |-> drv.name, Status |-> EFI_INVALID_PARAMETER,
                   args |-> args,
                   ErrorSourcesLength |-> lengthIn, ErrorSourcesCount |-> 0,
                   Buffer |-> IF args.Buffer.ptr = NULL THEN NoBuffer
                              ELSE CallerBuffer(args.Buffer)]
       /\ regionNext = region
  ELSE IF args.Buffer.ptr = NULL
  THEN /\ call' = [op |-> drv.name, Status |-> EFI_BUFFER_TOO_SMALL,
                   args |-> args,
                   ErrorSourcesLength |-> ErrorSourcesLength(drv),
                   ErrorSourcesCount |-> drv.count, Buffer |-> NoBuffer]
       /\ regionNext = region
  ELSE /\ call' = [op |-> drv.name, Status |-> EFI_SUCCESS, args |-> args,
                   ErrorSourcesLength |-> ErrorSourcesLength(drv),
                   ErrorSourcesCount |-> drv.count,
                   Buffer |-> FilledBuffer(args.Buffer, drv.descriptor)]
       /\ regionNext = drv.regionInit

CpuErrorSourceDescInfoGet(args, lengthIn) ==
  /\ source = "Cpu"
  /\ driver.pc = "returned" /\ driver.protocol
  /\ ErrorSourceDescInfoGet(CpuDriver, args, lengthIn, cpuRegion, cpuRegion')
  /\ UNCHANGED <<source, sramRegion, driver, run, cxl>>

SramErrorSourceDescInfoGet(args, lengthIn) ==
  /\ source = "Sram"
  /\ driver.pc = "returned" /\ driver.protocol
  /\ ErrorSourceDescInfoGet(SramDriver, args, lengthIn, sramRegion, sramRegion')
  /\ UNCHANGED <<source, cpuRegion, driver, run, cxl>>

-----------------------------------------------------------------------------
(* CpuMm.c: CpuMmDriverInitialize; SramMm.c: SramMmDriverInitialize.  The   *)
(* two entry points are the same code over their own handler and protocol.  *)

\* EFI_ERROR (Status)
EFI_ERROR(Status) == Status # EFI_SUCCESS

\* What MmiHandlerRegister and the protocol installation may return.
MmStatusValues == {EFI_SUCCESS, EFI_OUT_OF_RESOURCES, EFI_INVALID_PARAMETER}

\* The entry point has not run.
DriverEntry ==
  [pc |-> "MmiHandlerRegister", handler |-> FALSE, protocol |-> FALSE,
   Status |-> "none", registerStatus |-> "none", installStatus |-> "none"]

\* The entry point returned EFI_SUCCESS.
DriverLoaded ==
  [pc |-> "returned", handler |-> TRUE, protocol |-> TRUE,
   Status |-> EFI_SUCCESS, registerStatus |-> EFI_SUCCESS,
   installStatus |-> EFI_SUCCESS]

\* Status = MmiHandlerRegister (handler, &guid, &DispatchHandle);
\* if (EFI_ERROR (Status)) return Status;
DriverMmiHandlerRegister(Status) ==
  /\ source \in {"Cpu", "Sram"}
  /\ driver.pc = "MmiHandlerRegister"
  /\ driver' = IF EFI_ERROR(Status)
                THEN [driver EXCEPT !.pc = "returned", !.Status = Status,
                                    !.registerStatus = Status]
                ELSE [driver EXCEPT !.pc = "InstallErrorSourceDescProtocol",
                                    !.handler = TRUE,
                                    !.registerStatus = Status]
  /\ UNCHANGED <<source, cpuRegion, sramRegion, call, run, cxl>>

AfterInstallNoUnRegister(Status) == "returned"

\* if (EFI_ERROR (Status)) { MmiHandlerUnRegister (DispatchHandle); }
\* return Status;
AfterInstall(Status) ==
  IF EFI_ERROR(Status) THEN "MmiHandlerUnRegister" ELSE "returned"

\* Status = CpuInstallErrorSourceDescProtocol (SystemTable), likewise Sram.
DriverInstallErrorSourceDescProtocol(Status) ==
  /\ source \in {"Cpu", "Sram"}
  /\ driver.pc = "InstallErrorSourceDescProtocol"
  /\ driver' = [driver EXCEPT !.pc = AfterInstall(Status),
                              !.protocol = ~EFI_ERROR(Status),
                              !.Status = Status,
                              !.installStatus = Status]
  /\ UNCHANGED <<source, cpuRegion, sramRegion, call, run, cxl>>

\* mMmst->MmiHandlerUnRegister (DispatchHandle) with the handle the
\* registration returned; its result is not looked at.
DriverMmiHandlerUnRegister ==
  /\ source \in {"Cpu", "Sram"}
  /\ driver.pc = "MmiHandlerUnRegister"
  /\ driver' = [driver EXCEPT !.pc = "returned", !.handler = FALSE]
  /\ UNCHANGED <<source, cpuRegion, sramRegion, call, run, cxl>>

-----------------------------------------------------------------------------
(* CxlDxe.h, CxlDxe.c: the remote memory ranges read from CDAT responses.  *)

\* STATIC REMOTE_MEMORY_CONFIG RemoteMemConfig[5];
RemoteMemConfigSize == 5

CDAT_TABLE_HEADER_SIZE == 4

CDAT_STRUCTURE_DSMAS_SIZE == 6

\* enum CDAT_STRUCTURE_TYPE
CDAT_STRUCTURE_DSMAS == 0

CDAT_STRUCTURE_DSLBIS == 1

\* Largest RemoteMemCount followed.
MaxRemoteMem == 6

\* Largest *MemCount a caller asks for.
MaxMemCount == 7

ZeroConfig == [DpaAddress |-> 0, DpaLength |-> 0]

\* Memory behind RemoteMemConfig that belongs to another object.
ForeignBytes == [kind |-> "foreign"]

NoLoop == [Index |-> 0, Length |-> 0, data |-> << >>, active |-> FALSE]

\* The statics as the image is loaded: RemoteMemCount 0, the array zero.
\* Beyond is what the memory behind the array holds where UpdateCdatData
\* stored past its end; Discovered lists the DSMAS ranges read so far.
CxlInit ==
  [RemoteMemCount |-> 0,
   RemoteMemConfig |-> [i \in 0..(RemoteMemConfigSize - 1) |-> ZeroConfig],
   Beyond |-> << >>, Discovered |-> << >>, loop |-> NoLoop]

\* The run of handler invocations: none in flight.
RunIdle == [p \in {"Cpu", "Sram"} |-> [pc |-> "idle"]]

\* The drivers are loaded and the HEST builder has made its boot-time fill
\* call: both regions are as that call leaves them.
Init ==
  /\ source \in {"Cpu", "Sram"}
  /\ cpuRegion = CpuRegionInit
  /\ sramRegion = SramRegionInit
  /\ call = NoCall
  /\ driver = DriverLoaded
  /\ run = RunIdle
  /\ cxl = CxlInit

Next ==
  \/ \E d \in CpuDeliveries :
       CpuErrorEventHandler(d.Buffer, d.BufferSize, d.stack)
  \/ \E d \in SramDeliveries, regs \in SramRegisterReads, frame \in SramStackFrames :
       SramErrorEventMmiHandler(d.Buffer, d.BufferSize, regs, frame)
  \/ \E args \in DescCalls : CpuErrorSourceDescInfoGet(args, 0)
  \/ \E args \in DescCalls : SramErrorSourceDescInfoGet(args, 0)

Spec == Init /\ [][Next]_vars

\* The image of one MM driver is dispatched: its entry point has not run
\* and no driver has written the reserved memory, which reset left zero.
InitBoot ==
  /\ source \in {"Cpu", "Sram"}
  /\ cpuRegion = ZeroCpuRegion
  /\ sramRegion = ZeroSramRegion
  /\ call = NoCall
  /\ driver = DriverEntry
  /\ run = RunIdle
  /\ cxl = CxlInit

\* The CPU deliveries of one capture on one stack.
OneCaptureDeliveries ==
  {d \in CpuDeliveries :
     /\ d.stack = "stackA"
     /\ d.Buffer.ptr # NULL => d.Buffer.data.ErrCtxGpr[2] = "ctxA"}

\* The entry point runs; what it registered and installed is then called.
NextBoot ==
  \/ \E Status \in MmStatusValues : DriverMmiHandlerRegister(Status)
  \/ \E Status \in MmStatusValues : DriverInstallErrorSourceDescProtocol(Status)
  \/ DriverMmiHandlerUnRegister
  \/ \E d \in OneCaptureDeliveries :
       CpuErrorEventHandler(d.Buffer, d.BufferSize, d.stack)
  \/ \E d \in SramDeliveries, regs \in SramRegisterReads, frame \in SramStackFrames :
       SramErrorEventMmiHandler(d.Buffer, d.BufferSize, regs, frame)
  \/ \E args \in DescCalls : CpuErrorSourceDescInfoGet(args, 0)
  \/ \E args \in DescCalls : SramErrorSourceDescInfoGet(args, 0)

SpecBoot == InitBoot /\ [][NextBoot]_vars

-----------------------------------------------------------------------------
(* CxlDxe.c: UpdateCdatData, CxlGetRemoteMem, CxlGetRemoteMemCount.        *)

\* A DSMAS structure of a CDAT response.
Dsmas(DpaBase, DpaLength) ==
  [Type |-> CDAT_STRUCTURE_DSMAS, DpaBase |-> DpaBase, DpaLength |-> DpaLength]

\* The CDAT data DoeReceiveResponse hands over: Length in DWORDs and, behind
\* the table header, the structures the device sent, each of the size of a
\* DSMAS.  A response may hold no structure, DSMAS ranges, or a DSLBIS.
CdatResponses ==
  {[Length |-> CDAT_TABLE_HEADER_SIZE + CDAT_STRUCTURE_DSMAS_SIZE * Len(d),
    data |-> d] :
     d \in {<< >>,
             <<Dsmas(0, 4096)>>,
             <<Dsmas(4096, 8192)>>,
             <<Dsmas(0, 4096), Dsmas(4096, 8192)>>,
             <<[Type |-> CDAT_STRUCTURE_DSLBIS, DpaBase |-> 0, DpaLength |-> 0]>>}}

\* DoeRespCdatData[Index], for an Index at the start of a structure; the
\* array was zeroed where the device sent nothing.
StructAt(data, Index) ==
  IF (Index - CDAT_TABLE_HEADER_SIZE) \div CDAT_STRUCTURE_DSMAS_SIZE < Len(data)
  THEN data[(Index - CDAT_TABLE_HEADER_SIZE) \div CDAT_STRUCTURE_DSMAS_SIZE + 1]
  ELSE Dsmas(0, 0)

\* UpdateCdatData is entered: Index = CDAT_TABLE_HEADER_SIZE.
UpdateCdatData(resp) ==
  /\ source = "Cxl"
  /\ ~cxl.loop.active
  /\ cxl' = [cxl EXCEPT !.loop = [Index |-> CDAT_TABLE_HEADER_SIZE,
                                  Length |-> resp.Length, data |-> resp.data,
                                  active |-> TRUE]]
  /\ call' = [op |-> "UpdateCdatData", Status |-> "none"]
  /\ UNCHANGED <<source, cpuRegion, sramRegion, driver, run>>

\* RemoteMemConfig[RemoteMemCount] = range; RemoteMemCount++.  A store at
\* an index past the array goes to the memory behind it, which then holds
\* the range or what its owner put there.
StoreRemoteMem(c, range, landed) ==
  [c EXCEPT
     !.RemoteMemConfig =
        IF c.RemoteMemCount < RemoteMemConfigSize
        THEN [c.RemoteMemConfig EXCEPT ![c.RemoteMemCount] = range]
        ELSE c.RemoteMemConfig,
     !.Beyond = IF c.RemoteMemCount < RemoteMemConfigSize THEN c.Beyond
                ELSE Append(c.Beyond, landed),
     !.RemoteMemCount = c.RemoteMemCount + 1,
     !.Discovered = Append(c.Discovered, range),
     !.loop.Index = c.loop.Index + CDAT_STRUCTURE_DSMAS_SIZE]

\* One pass of while (Index < Length): the loop ends, a DSMAS range is
\* stored, or a structure of another type leaves Index as it is.
UpdateCdatDataLoop ==
  /\ source = "Cxl"
  /\ cxl.loop.active
  /\ IF ~(cxl.loop.Index < cxl.loop.Length)
     THEN cxl' = [cxl EXCEPT !.loop = NoLoop]
     ELSE IF StructAt(cxl.loop.data, cxl.loop.Index).Type = CDAT_STRUCTURE_DSMAS
     THEN /\ cxl.RemoteMemCount < MaxRemoteMem
          /\ \E range \in {[DpaAddress |-> StructAt(cxl.loop.data, cxl.loop.Index).DpaBase,
                             DpaLength |-> StructAt(cxl.loop.data, cxl.loop.Index).DpaLength]} :
              \E landed \in {range, ForeignBytes} :
                cxl' = StoreRemoteMem(cxl, range, landed)
     ELSE UNCHANGED cxl
  /\ UNCHANGED <<source, cpuRegion, sramRegion, call, driver, run>>

\* return RemoteMemCount;
CxlGetRemoteMemCount ==
  /\ source = "Cxl"
  /\ ~cxl.loop.active
  /\ call' = [op |-> "CxlGetRemoteMemCount", Status |-> "none",
              Result |-> cxl.RemoteMemCount]
  /\ UNCHANGED <<source, cpuRegion, sramRegion, driver, run, cxl>>

\* if ((*MemCount) > RemoteMemCount) *MemCount = RemoteMemCount;
ClampedMemCount(MemCount, c) ==
  IF MemCount > c.RemoteMemCount THEN c.RemoteMemCount ELSE MemCount

\* The i-th REMOTE_MEMORY_CONFIG from the start of RemoteMemConfig; past
\* the array it is the memory behind it.
RemoteMemAt(c, i) ==
  IF i < RemoteMemConfigSize THEN c.RemoteMemConfig[i]
  ELSE c.Beyond[i - RemoteMemConfigSize + 1]

CxlGetRemoteMem(MemCount) ==
  /\ source = "Cxl"
  /\ ~cxl.loop.active
  /\ call' = [op |-> "CxlGetRemoteMem", Status |-> EFI_SUCCESS,
              MemCountIn |-> MemCount,
              MemCount |-> ClampedMemCount(MemCount, cxl),
              RemoteMemInfo |->
                [i \in 1..ClampedMemCount(MemCount, cxl) |->
                   RemoteMemAt(cxl, i - 1)]]
  /\ UNCHANGED <<source, cpuRegion, sramRegion, driver, run, cxl>>

\* The CXL driver image is loaded; no CDAT response was read yet.
InitCxl ==
  /\ source = "Cxl"
  /\ cpuRegion = CpuRegionInit
  /\ sramRegion = SramRegionInit
  /\ call = NoCall
  /\ driver = DriverLoaded
  /\ run = RunIdle
  /\ cxl = CxlInit

NextCxl ==
  \/ \E resp \in CdatResponses : UpdateCdatData(resp)
  \/ UpdateCdatDataLoop
  \/ CxlGetRemoteMemCount
  \/ \E MemCount \in 0..MaxMemCount : CxlGetRemoteMem(MemCount)

SpecCxl == InitCxl /\ [][NextCxl]_vars

-----------------------------------------------------------------------------
(* CxlDxe.h, CxlDxe.c: SendDoeCommand, IsDoeBusy and DoeReceiveResponse.    *)
(* run["Doe"] holds the position of SendDoeCommand and its locals; bus is   *)
(* the list of accesses to the DOE registers made since the current pass    *)
(* of the request loop began.                                               *)

EFI_ALREADY_STARTED == "EFI_ALREADY_STARTED"
EFI_PROTOCOL_ERROR == "EFI_PROTOCOL_ERROR"
EFI_DEVICE_ERROR == "EFI_DEVICE_ERROR"

DOE_DATA_OBJECT_LENGTH == 262143

CXL_DOE_TABLE_ENTRY_HANDLE_LAST == 65535

DVSEC_CXL_VENDOR_ID == 7832

DOE_CONTROL_REG == 8

DOE_STATUS_REG == 12

DOE_WRITE_DATA_MAILBOX_REG == 16

DOE_DATA_OBJ_TYPE_CDAT == 2

CDAT_READ_ENTRY_REQ_SIZE == 3

TOTAL_CDAT_ENTRY == 24

\* Most passes of the request loop followed for one device.
MaxRequests == 3

\* Store into a UINT16.
ToUint16(n) == n % 65536

\* What a Pci->Pci.Read or Pci->Pci.Write may return.
PciStatusValues == {EFI_SUCCESS, EFI_DEVICE_ERROR}

DOE_STAT_DOE_BUSY == BIT(0)

DOE_CTRL_DOE_GO == BIT(31)

\* CxlDoeReq as SendDoeCommand fills it; Header.Reserved is not assigned
\* and keeps what the stack held.
CxlDoeReqInit(stack) ==
  [VendorId |-> DVSEC_CXL_VENDOR_ID, DataObjType |-> DOE_DATA_OBJ_TYPE_CDAT,
   Reserved |-> StackBytes(stack), Length |-> CDAT_READ_ENTRY_REQ_SIZE,
   ReqCode |-> 0, TableType |-> 0, EntryHandle |-> 0]

\* *((UINT32 *) (&CxlDoeReq) + Index)
RequestDword(req, Index) ==
  CASE Index = 0 -> [VendorId |-> req.VendorId, DataObjType |-> req.DataObjType,
                     Reserved |-> req.Reserved]
    [] Index = 1 -> [Length |-> req.Length]
    [] OTHER -> [ReqCode |-> req.ReqCode, TableType |-> req.TableType,
                 EntryHandle |-> req.EntryHandle]

BusRead(Reg) == [op |-> "Read", Reg |-> Reg]

BusWrite(Reg, Val) == [op |-> "Write", Reg |-> Reg, Val |-> Val]

\* DoeReceiveResponse has not read a data object.
NoRx == [Header2 |-> 0, Length |-> 0, Count |-> 0, Past |-> 0, read |-> FALSE]

\* SendDoeCommand has not been called.
DoeIdle ==
  [pc |-> "idle", Index |-> 0, Reg |-> 0, CxlDoeReq |-> CxlDoeReqInit("stackA"),
   Status |-> "none", pass |-> 0, bus |-> << >>, rx |-> NoRx]

\* return Status; from SendDoeCommand.
DoeReturn(d, Status) == [d EXCEPT !.pc = "returned", !.Status = Status]

\* SendDoeCommand is entered: the request object is filled, Index = 0 and
\* Reg is the write mailbox; the do loop begins.
SendDoeCommand(stack) ==
  /\ source = "Cxl"
  /\ run["Doe"].pc \in {"idle", "returned"}
  /\ ~cxl.loop.active
  /\ run' = [run EXCEPT !["Doe"] =
               [pc |-> "IsDoeBusy", Index |-> 0, Reg |-> DOE_WRITE_DATA_MAILBOX_REG,
                CxlDoeReq |-> CxlDoeReqInit(stack), Status |-> "none",
                pass |-> 1, bus |-> << >>, rx |-> NoRx]]
  /\ UNCHANGED <<source, cpuRegion, sramRegion, call, driver, cxl>>

\* Status = IsDoeBusy (Pci, DoeBase + DOE_STATUS_REG) and the test behind it.
IsDoeBusy(Status, DoeStatVal) ==
  /\ source = "Cxl"
  /\ run["Doe"].pc = "IsDoeBusy"
  /\ \E d \in {[run["Doe"] EXCEPT !.bus = Append(@, BusRead(DOE_STATUS_REG))]} :
       run' = [run EXCEPT !["Doe"] =
                 IF EFI_ERROR(Status) THEN DoeReturn(d, Status)
                 ELSE IF BitAnd(DoeStatVal, DOE_STAT_DOE_BUSY) # {}
                 THEN DoeReturn(d, EFI_ALREADY_STARTED)
                 ELSE [d EXCEPT !.pc = "write", !.Status = Status]]
  /\ UNCHANGED <<source, cpuRegion, sramRegion, call, driver, cxl>>

\* One pass of while (Index < CDAT_READ_ENTRY_REQ_SIZE): a DWORD of the
\* request is written to Reg and Index advances.
DoeWriteRequest(Status) ==
  /\ source = "Cxl"
  /\ run["Doe"].pc = "write"
  /\ run["Doe"].Index < CDAT_READ_ENTRY_REQ_SIZE
  /\ \E d \in {[run["Doe"] EXCEPT
                  !.bus = Append(@, BusWrite(run["Doe"].Reg,
                            RequestDword(run["Doe"].CxlDoeReq, run["Doe"].Index)))]} :
       run' = [run EXCEPT !["Doe"] =
                 IF EFI_ERROR(Status) THEN DoeReturn(d, Status)
                 ELSE [d EXCEPT !.Index = @ + 1, !.Status = Status]]
  /\ UNCHANGED <<source, cpuRegion, sramRegion, call, driver, cxl>>

\* The request loop is left: Reg = DoeBase + DOE_CONTROL_REG, the control
\* register is read and written back with DOE_CTRL_DOE_GO set.
DoeSetGo(ReadStatus, WriteStatus, Val) ==
  /\ source = "Cxl"
  /\ run["Doe"].pc = "write"
  /\ ~(run["Doe"].Index < CDAT_READ_ENTRY_REQ_SIZE)
  /\ \E d \in {[run["Doe"] EXCEPT !.Reg = DOE_CONTROL_REG,
                  !.bus = Append(@, BusRead(DOE_CONTROL_REG))]} :
       run' = [run EXCEPT !["Doe"] =
                 IF EFI_ERROR(ReadStatus) THEN DoeReturn(d, ReadStatus)
                 ELSE IF EFI_ERROR(WriteStatus)
                 THEN DoeReturn([d EXCEPT !.bus = Append(@,
                        BusWrite(DOE_CONTROL_REG, BitOr(Val, DOE_CTRL_DOE_GO)))],
                        WriteStatus)
                 ELSE [d EXCEPT !.pc = "DoeReceiveResponse", !.Status = WriteStatus,
                         !.bus = Append(@,
                            BusWrite(DOE_CONTROL_REG, BitOr(Val, DOE_CTRL_DOE_GO)))]]
  /\ UNCHANGED <<source, cpuRegion, sramRegion, call, driver, cxl>>

\* What the device may present to DoeReceiveResponse: Data Object Ready or
\* not, the length field of Data Object Header 2, the next entry handle and
\* the CDAT structures behind the table header.
DoeResponses ==
  {[Ready |-> FALSE, Header2 |-> 0, EntryHandle |-> 0, data |-> << >>]} \cup
  {[Ready |-> TRUE, Header2 |-> l, EntryHandle |-> h,
    data |-> IF ToUint16(l) >= 13 THEN <<Dsmas(0, 4096)>> ELSE << >>] :
      l \in {1, 2, 3, 7, 13, 27, 28, 65549},
      h \in {1, CXL_DOE_TABLE_ENTRY_HANDLE_LAST}} \cup
  {[Ready |-> TRUE, Header2 |-> 13, EntryHandle |-> 1,
    data |-> <<[Type |-> CDAT_STRUCTURE_DSLBIS, DpaBase |-> 0, DpaLength |-> 0]>>]}

\* Length = Val & DOE_DATA_OBJECT_LENGTH, into the UINT16 Length.
DoeLength(Header2) == ToUint16(Header2 % (DOE_DATA_OBJECT_LENGTH + 1))

\* Length -= 3, in the UINT16 Length.
DoePayloadCount(Length) == ToUint16(Length - 3 + 65536)

\* The stores DoeRespCdatData[Index] = Val of while (Index < Length) that
\* use an Index outside the array.
DoeStoresPast(Count) ==
  IF Count > TOTAL_CDAT_ENTRY THEN Count - TOTAL_CDAT_ENTRY ELSE 0

\* DoeReceiveResponse up to its call of UpdateCdatData, whose loop then
\* runs; Status stands for the result of its register accesses.  Stores
\* behind DoeRespCdatData overwrite the stack: the caller goes on, or it
\* does not.
DoeReceiveResponse(Status, resp, outcome) ==
  /\ source = "Cxl"
  /\ run["Doe"].pc = "DoeReceiveResponse"
  /\ IF EFI_ERROR(Status)
     THEN /\ run' = [run EXCEPT !["Doe"] = DoeReturn(@, Status)]
          /\ UNCHANGED cxl
     ELSE IF ~resp.Ready
     THEN /\ run' = [run EXCEPT !["Doe"].pc = "while", !["Doe"].Status = Status]
          /\ UNCHANGED cxl
     ELSE IF DoeLength(resp.Header2) < 2
     THEN /\ run' = [run EXCEPT !["Doe"] = DoeReturn(@, EFI_PROTOCOL_ERROR)]
          /\ UNCHANGED cxl
     ELSE \E Count \in {DoePayloadCount(DoeLength(resp.Header2))} :
          /\ run' = [run EXCEPT
                       !["Doe"].CxlDoeReq.EntryHandle = resp.EntryHandle,
                       !["Doe"].Status = Status,
                       !["Doe"].rx = [Header2 |-> resp.Header2,
                                      Length |-> DoeLength(resp.Header2),
                                      Count |-> Count,
                                      Past |-> DoeStoresPast(Count),
                                      read |-> TRUE],
                       !["Doe"].pc = IF DoeStoresPast(Count) > 0 /\ outcome = "corrupted"
                                     THEN "corrupted" ELSE "UpdateCdatData"]
          /\ cxl' = IF DoeStoresPast(Count) > 0 /\ outcome = "corrupted" THEN cxl
                    ELSE [cxl EXCEPT !.loop = [Index |-> CDAT_TABLE_HEADER_SIZE,
                                               Length |-> Count, data |-> resp.data,
                                               active |-> TRUE]]
  /\ UNCHANGED <<source, cpuRegion, sramRegion, call, driver>>

\* while (CxlDoeReq.EntryHandle < CXL_DOE_TABLE_ENTRY_HANDLE_LAST), reached
\* when DoeReceiveResponse has returned; return Status behind it.
DoeRequestLoopTest ==
  /\ source = "Cxl"
  /\ \/ run["Doe"].pc = "while"
     \/ run["Doe"].pc = "UpdateCdatData" /\ ~cxl.loop.active
  /\ IF run["Doe"].CxlDoeReq.EntryHandle < CXL_DOE_TABLE_ENTRY_HANDLE_LAST
     THEN /\ run["Doe"].pass < MaxRequests
          /\ run' = [run EXCEPT !["Doe"].pc = "IsDoeBusy", !["Doe"].pass = @ + 1,
                                !["Doe"].bus = << >>]
     ELSE run' = [run EXCEPT !["Doe"] = DoeReturn(@, run["Doe"].Status)]
  /\ UNCHANGED <<source, cpuRegion, sramRegion, call, driver, cxl>>

\* The CXL driver image is loaded and PciBusEvent has found a device with a
\* DOE capability; SendDoeCommand was not called yet.
InitDoe ==
  /\ source = "Cxl"
  /\ cpuRegion = CpuRegionInit
  /\ sramRegion = SramRegionInit
  /\ call = NoCall
  /\ driver = DriverLoaded
  /\ run = [p \in {"Doe"} |-> DoeIdle]
  /\ cxl = CxlInit

NextDoe ==
  \/ \E stack \in StackValues : SendDoeCommand(stack)
  \/ \E Status \in PciStatusValues, DoeStatVal \in {{}, {0}, {31}} :
       IsDoeBusy(Status, DoeStatVal)
  \/ \E Status \in PciStatusValues : DoeWriteRequest(Status)
  \/ \E ReadStatus \in PciStatusValues, WriteStatus \in PciStatusValues, Val \in {{}, {0}} :
       DoeSetGo(ReadStatus, WriteStatus, Val)
  \/ \E Status \in PciStatusValues, resp \in DoeResponses, outcome \in {"continues", "corrupted"} :
       DoeReceiveResponse(Status, resp, outcome)
  \/ UpdateCdatDataLoop
  \/ DoeRequestLoopTest

SpecDoe == InitDoe /\ [][NextDoe]_vars

-----------------------------------------------------------------------------
(* CpuMm.c, SramMm.c: the two handlers store by store, for a CPU and an     *)
(* SRAM invocation that overlap.  Each store goes to the physical address   *)
(* the handler computed from its PCD base.                                  *)

\* The reserved memory a physical address lies in.
RegionAt(base) ==
  IF base = "PcdCpuErrorDataBase" THEN cpuRegion ELSE sramRegion

\* One store of a handler: the field at st.addr takes value.
Store(st, value) ==
  /\ cpuRegion' = IF st.addr.base = "PcdCpuErrorDataBase"
                   THEN [cpuRegion EXCEPT ![st.field] = value]
                   ELSE cpuRegion
  /\ sramRegion' = IF st.addr.base = "PcdSramErrorDataBase"
                    THEN [sramRegion EXCEPT ![st.field] = value]
                    ELSE sramRegion

\* An invocation that returned Status before any store.
Returned(Status) == [pc |-> "returned", Status |-> Status, done |-> << >>]

\* After the store at the head of todo: the next store, or the return.
AfterStore(r) ==
  [r EXCEPT !.todo = Tail(r.todo), !.done = Append(r.done, Head(r.todo)),
            !.pc = IF Len(r.todo) = 1 THEN "returned" ELSE "storing",
            !.Status = IF Len(r.todo) = 1 THEN EFI_SUCCESS ELSE "none"]

\* CpuErrorEventHandler up to the computation of ErrStatusBlock.
CpuHandlerBegin(CpuBuffer, CpuBufferSize, stack) ==
  /\ source = "Both"
  /\ run["Cpu"].pc = "idle"
  /\ run' = [run EXCEPT !["Cpu"] =
               IF CpuBuffer.ptr = NULL THEN Returned(EFI_INVALID_PARAMETER)
               ELSE IF CpuBufferTooSmall(CpuBufferSize)
               THEN Returned(EFI_BAD_BUFFER_SIZE)
               ELSE [pc |-> "storing", Status |-> "none",
                     snap |-> CpuBuffer.data, stack |-> stack,
                     todo |-> HandlerStores(CpuErrStatusBlock,
                                            CpuCopyLength(CpuBuffer.data)),
                     done |-> << >>]]
  /\ UNCHANGED <<source, cpuRegion, sramRegion, call, driver, cxl>>

\* What the CPU handler stores at st, given what the memory there holds.
CpuStoredValue(st, r, old) ==
  CASE st.field = "Header" -> CpuHeader(old, r.snap)
    [] st.field = "Desc" -> CpuDesc(old, r.snap)
    [] st.field = "Payload" ->
         CpuCopyMem(old, SectionData(r.snap, r.stack), st.len)

\* The next store of the CPU handler; after the last one it returns.
CpuHandlerStore ==
  /\ source = "Both"
  /\ run["Cpu"].pc = "storing"
  /\ \E st \in {Head(run["Cpu"].todo)} :
       Store(st, CpuStoredValue(st, run["Cpu"],
                                RegionAt(st.addr.base)[st.field]))
  /\ run' = [run EXCEPT !["Cpu"] = AfterStore(run["Cpu"])]
  /\ UNCHANGED <<source, call, driver, cxl>>

\* SramErrorEventMmiHandler up to its call of SramErrorHandler.
SramHandlerBegin(SramBuffer, SramBufferSize, frame) ==
  /\ source = "Both"
  /\ run["Sram"].pc = "idle"
  /\ run' = [run EXCEPT !["Sram"] =
               IF SramBuffer.ptr = NULL THEN Returned(EFI_INVALID_PARAMETER)
               ELSE IF SramBufferTooSmall(SramBufferSize)
               THEN Returned(EFI_BAD_BUFFER_SIZE)
               ELSE [pc |-> "SramErrorHandler", Status |-> "none",
                     base |-> SramEccRecordBase(SramBuffer.data),
                     frame |-> frame, done |-> << >>]]
  /\ UNCHANGED <<source, cpuRegion, sramRegion, call, driver, cxl>>

\* SramErrorHandler: the register reads and the write-back of ERRSTATUS.
SramHandlerRead(regs) ==
  /\ source = "Both"
  /\ run["Sram"].pc = "SramErrorHandler"
  /\ run' = [run EXCEPT !["Sram"] =
               [pc |-> "storing", Status |-> "none",
                base |-> run["Sram"].base, frame |-> run["Sram"].frame,
                regs |-> regs, mmio |-> SramMmio(run["Sram"].base, regs),
                todo |-> HandlerStores(SramErrStatusBlock, SramCopyLength),
                done |-> << >>]]
  /\ UNCHANGED <<source, cpuRegion, sramRegion, call, driver, cxl>>

\* What the SRAM handler stores at st, given what the memory there holds.
SramStoredValue(st, r, old) ==
  CASE st.field = "Header" -> SramHeader(old, r.regs, r.frame)
    [] st.field = "Desc" -> SramDesc(old, r.regs, r.frame)
    [] st.field = "Payload" -> MemorySectionInfo(r.regs)

\* The next store of the SRAM handler; after the last one it returns.
SramHandlerStore ==
  /\ source = "Both"
  /\ run["Sram"].pc = "storing"
  /\ \E st \in {Head(run["Sram"].todo)} :
       Store(st, SramStoredValue(st, run["Sram"],
                                 RegionAt(st.addr.base)[st.field]))
  /\ run' = [run EXCEPT !["Sram"] = AfterStore(run["Sram"])]
  /\ UNCHANGED <<source, call, driver, cxl>>

\* Both drivers are loaded and both regions filled; no invocation runs.
InitInterleave ==
  /\ source = "Both"
  /\ cpuRegion = CpuRegionInit
  /\ sramRegion = SramRegionInit
  /\ call = NoCall
  /\ driver = DriverLoaded
  /\ run = RunIdle
  /\ cxl = CxlInit

NextInterleave ==
  \/ \E d \in OneCaptureDeliveries :
       CpuHandlerBegin(d.Buffer, d.BufferSize, d.stack)
  \/ CpuHandlerStore
  \/ \E d \in SramDeliveries, frame \in SramStackFrames :
       SramHandlerBegin(d.Buffer, d.BufferSize, frame)
  \/ \E regs \in SramRegisterReads : SramHandlerRead(regs)
  \/ SramHandlerStore

SpecInterleave == InitInterleave /\ [][NextInterleave]_vars

-----------------------------------------------------------------------------
(* CpuMm.c: two invocations of CpuErrorEventHandler for the one CPU error    *)
(* source, store by store.  The handler takes no lock; whether a second     *)
(* delivery is dispatched while the first is still storing is the host's    *)
(* choice, fixed in source: it overlaps invocations or serializes them.     *)

\* The two invocations.
Invocations == {"First", "Second"}

HostAdmitsAlways(mode, r) == TRUE

\* The host dispatches a delivery for the source at once, or, where it
\* serializes per source, only while no invocation for it is in flight.
HostAdmits(mode, r) ==
  mode = "CpuSerialized" => \A q \in DOMAIN r : r[q].pc # "storing"

\* CpuErrorEventHandler of the invocation p up to the computation of
\* ErrStatusBlock.
InvocationBegin(p, CpuBuffer, CpuBufferSize, stack) ==
  /\ source \in {"CpuOverlapping", "CpuSerialized"}
  /\ run[p].pc = "idle"
  /\ HostAdmits(source, run)
  /\ run' = [run EXCEPT ![p] =
               IF CpuBuffer.ptr = NULL THEN Returned(EFI_INVALID_PARAMETER)
               ELSE IF CpuBufferTooSmall(CpuBufferSize)
               THEN Returned(EFI_BAD_BUFFER_SIZE)
               ELSE [pc |-> "storing", Status |-> "none",
                     snap |-> CpuBuffer.data, stack |-> stack,
                     todo |-> HandlerStores(CpuErrStatusBlock,
                                            CpuCopyLength(CpuBuffer.data)),
                     done |-> << >>]]
  /\ UNCHANGED <<source, cpuRegion, sramRegion, call, driver, cxl>>

\* The next store of the invocation p; after the last one it returns.
InvocationStore(p) ==
  /\ source \in {"CpuOverlapping", "CpuSerialized"}
  /\ run[p].pc = "storing"
  /\ \E st \in {Head(run[p].todo)} :
       Store(st, CpuStoredValue(st, run[p], RegionAt(st.addr.base)[st.field]))
  /\ run' = [run EXCEPT ![p] = AfterStore(run[p])]
  /\ UNCHANGED <<source, call, driver, cxl>>

\* The CPU driver is loaded and its region filled; no invocation runs.
InitSameSource ==
  /\ source \in {"CpuOverlapping", "CpuSerialized"}
  /\ cpuRegion = CpuRegionInit
  /\ sramRegion = SramRegionInit
  /\ call = NoCall
  /\ driver = DriverLoaded
  /\ run = [p \in Invocations |-> [pc |-> "idle"]]
  /\ cxl = CxlInit

NextSameSource ==
  \/ \E p \in Invocations, d \in OneCaptureDeliveries :
       InvocationBegin(p, d.Buffer, d.BufferSize, d.stack)
  \/ \E p \in Invocations : InvocationStore(p)

SpecSameSource == InitSameSource /\ [][NextSameSource]_vars

-----------------------------------------------------------------------------
(* Properties of the handlers' records.                                    *)

\* The last call was a CPU handler invocation that wrote a record.
CpuDone ==
  call.op = "CpuErrorEventHandler" /\ call.Status = EFI_SUCCESS

\* The last call was an SRAM handler invocation that wrote a record.
SramDone ==
  call.op = "SramErrorEventMmiHandler" /\ call.Status = EFI_SUCCESS

\* The fields of the CPU payload that lie inside the length the section
\* descriptor of region r declares.
DeclaredPayload(r) ==
  {f \in CpuPayloadFields : FieldOffset(f) < r.Desc.ErrorDataLength}

ContextFields == {"Ctx0", "Ctx1", "Ctx2"}

\* The assigned fields of an error-information sub-record.
ErrInfoDetail(e) ==
  [Type |-> e.Type, MultipleError |-> e.MultipleError, Flags |-> e.Flags,
   VirtualFaultAddress |-> e.VirtualFaultAddress,
   PhysicalFaultAddress |-> e.PhysicalFaultAddress,
   ValidFields |-> e.ErrorInfo.ValidFields,
   TransactionType |-> e.ErrorInfo.TransactionType,
   Operation |-> e.ErrorInfo.Operation, Level |-> e.ErrorInfo.Level,
   ContextCorrupt |-> e.ErrorInfo.ContextCorrupt,
   ErrorCorrected |-> e.ErrorInfo.ErrorCorrected,
   PrecisePc |-> e.ErrorInfo.PrecisePc,
   RestartablePc |-> e.ErrorInfo.RestartablePc]

\* C1: every accepted CPU snapshot whose SecurityState is Secure (0) or
\* NonSecure (1) leaves DataLength = sizeof (section descriptor) + the size of
\* the processor record, one error-information record and, for NonSecure
\* only, three context records; run on the same region with only the
\* SecurityState flipped, the NonSecure DataLength is larger than the Secure
\* one by exactly 3 * sizeof (EFI_ARM_PROCESSOR_CONTEXT_INFORMATION).
C1_DataLength ==
  [][(call'.op = "CpuErrorEventHandler" /\ call'.Status = EFI_SUCCESS
        /\ call'.Buffer.data.SecurityState \in {SECURE, NON_SECURE})
       => \A snap \in {call'.Buffer.data} :
          \A sec \in {CpuRecord(cpuRegion, [snap EXCEPT !.SecurityState = SECURE],
                                call'.stack)} :
          \A ns \in {CpuRecord(cpuRegion, [snap EXCEPT !.SecurityState = NON_SECURE],
                               call'.stack)} :
             /\ cpuRegion' = IF snap.SecurityState = SECURE THEN sec ELSE ns
             /\ cpuRegion'.Header.DataLength =
                  SizeofGenericErrorDataEntry + SizeofArmProcessorErrorRecord
                    + SizeofArmProcessorErrorInformation
                    + (IF snap.SecurityState = NON_SECURE
                       THEN 3 * SizeofArmProcessorContextInformation
                       ELSE 0)
             /\ ns.Header.DataLength - sec.Header.DataLength =
                  3 * SizeofArmProcessorContextInformation]_vars

C1_Witness ==
  /\ CpuDone
  /\ call.Buffer.data.SecurityState = NON_SECURE
  /\ cpuRegion.Header.DataLength =
       SizeofGenericErrorDataEntry + SizeofArmProcessorErrorRecord
         + SizeofArmProcessorErrorInformation
         + 3 * SizeofArmProcessorContextInformation

\* C2: after a successful CPU or SRAM handler invocation the descriptor's
\* ErrorDataLength is the number of bytes the final CopyMem copied behind the
\* descriptor, the header's DataLength is sizeof (descriptor) plus that
\* number, and RawDataOffset is sizeof (header) + sizeof (descriptor).
C2_Lengths ==
  /\ CpuDone =>
       /\ call.CopyLength = CPU_SECTION_DATA_SIZE(call.Buffer.data.SecurityState)
       /\ cpuRegion.Desc.ErrorDataLength = call.CopyLength
       /\ cpuRegion.Header.DataLength =
            SizeofGenericErrorDataEntry + call.CopyLength
       /\ cpuRegion.Header.RawDataOffset =
            SizeofGenericErrorStatus + SizeofGenericErrorDataEntry
  /\ SramDone =>
       /\ call.CopyLength = SizeofPlatformMemoryErrorData
       /\ sramRegion.Desc.ErrorDataLength = call.CopyLength
       /\ sramRegion.Header.DataLength =
            SizeofGenericErrorDataEntry + call.CopyLength
       /\ sramRegion.Header.RawDataOffset =
            SizeofGenericErrorStatus + SizeofGenericErrorDataEntry

C2_Witness ==
  /\ CpuDone
  /\ call.Buffer.data.SecurityState = SECURE
  /\ cpuRegion.Desc.ErrorDataLength = call.CopyLength
  /\ call.CopyLength < SizeofCpuErrSectionData

\* C3: after a successful CPU or SRAM handler invocation exactly one of
\* BlockStatus.CorrectableErrorValid and BlockStatus.UncorrectableErrorValid
\* is 1.
C3_ExactlyOneValid ==
  /\ CpuDone =>
       cpuRegion.Header.CorrectableErrorValid
         + cpuRegion.Header.UncorrectableErrorValid = 1
  /\ SramDone =>
       sramRegion.Header.CorrectableErrorValid
         + sramRegion.Header.UncorrectableErrorValid = 1

\* C4: of two CPU snapshots that differ only in SecurityState, run on the
\* same region, the Secure one declares a payload of the processor record and
\* one error-information record and stores no context record, the NonSecure
\* one declares and stores all three context records, and both store the same
\* error-information sub-record.
C4_SecurityBoundary ==
  [][(call'.op = "CpuErrorEventHandler" /\ call'.Status = EFI_SUCCESS
        /\ call'.Buffer.data.SecurityState \in {SECURE, NON_SECURE})
       => \A snap \in {call'.Buffer.data} :
          \A sec \in {CpuRecord(cpuRegion, [snap EXCEPT !.SecurityState = SECURE],
                                call'.stack)} :
          \A ns \in {CpuRecord(cpuRegion, [snap EXCEPT !.SecurityState = NON_SECURE],
                               call'.stack)} :
             /\ cpuRegion' = IF snap.SecurityState = SECURE THEN sec ELSE ns
             /\ DeclaredPayload(sec) = {"CpuInfo", "CpuErrInfo"}
             /\ \A f \in ContextFields : sec.Payload[f] = cpuRegion.Payload[f]
             /\ DeclaredPayload(ns) = {"CpuInfo", "CpuErrInfo"} \cup ContextFields
             /\ ns.Payload["Ctx0"].RegisterArray = snap.ErrCtxGpr
             /\ ns.Payload["Ctx1"].RegisterArray = snap.ErrCtxEl1Reg
             /\ ns.Payload["Ctx2"].RegisterArray = snap.ErrCtxEl2Reg
             /\ ErrInfoDetail(sec.Payload["CpuErrInfo"])
                  = ErrInfoDetail(ns.Payload["CpuErrInfo"])]_vars

C4_Witness ==
  /\ CpuDone
  /\ call.Buffer.data.SecurityState = SECURE
  /\ DeclaredPayload(cpuRegion) = {"CpuInfo", "CpuErrInfo"}
  /\ cpuRegion.Payload["CpuErrInfo"].PhysicalFaultAddress = call.Buffer.data.ErrAddr
  /\ cpuRegion.Payload["Ctx0"] = ZeroBytes

\* C5: after a successful CPU handler invocation the header's and the
\* descriptor's ErrorSeverity are both Corrected (2) when ErrStatus has a bit
\* of the correctable mask (bits 24-25) set and both Fatal (1) otherwise.
C5_Severity ==
  CpuDone =>
    LET severity == IF call.Buffer.data.ErrStatus \cap {24, 25} # {}
                    THEN EFI_ACPI_6_3_ERROR_SEVERITY_CORRECTED
                    ELSE EFI_ACPI_6_4_ERROR_SEVERITY_FATAL
    IN /\ cpuRegion.Header.ErrorSeverity = severity
       /\ cpuRegion.Desc.ErrorSeverity = severity

\* C6: after any sequence of CPU handler invocations the descriptor's Flags
\* reflect the most recent snapshot only: BIT7 is set iff that snapshot has a
\* correctable bit and the overflow bit, the latent-error flag iff it has no
\* correctable bit and the deferred-error bit.
C6_FlagsOfLastSnapshot ==
  CpuDone =>
    LET ErrStatus == call.Buffer.data.ErrStatus
        ce == ErrStatus \cap {24, 25} # {}
    IN /\ (7 \in cpuRegion.Desc.Flags) <=> (ce /\ 27 \in ErrStatus)
       /\ (EFI_ERROR_SECTION_FLAGS_LATENT_ERROR \subseteq cpuRegion.Desc.Flags)
            <=> (~ce /\ 23 \in ErrStatus)

\* C7: with Serr = ErrStatus & 0xFF, the error-information Type the CPU
\* handler stores is Cache when Serr < 0x08 and TLB when Serr >= 0x08,
\* whatever the other bits of ErrStatus.
C7_CacheTlbThreshold ==
  CpuDone =>
    LET Serr == ToNat(call.Buffer.data.ErrStatus \cap (0..7))
    IN cpuRegion.Payload["CpuErrInfo"].Type =
         IF Serr < 8 THEN EFI_ARM_PROC_ERROR_TYPE_CACHE
         ELSE EFI_ARM_PROC_ERROR_TYPE_TLB

C7_Witness ==
  /\ CpuDone
  /\ ToNat(call.Buffer.data.ErrStatus \cap (0..7)) = 8
  /\ call.Buffer.data.ErrStatus \ (0..7) # {}
  /\ cpuRegion.Payload["CpuErrInfo"].Type = EFI_ARM_PROC_ERROR_TYPE_TLB

\* C8: when the SRAM handler read a status with the uncorrectable bit set
\* and the correctable bit clear, the header's and the descriptor's
\* ErrorSeverity are Fatal, PhysicalAddress is the value read from the
\* address register, PhysicalAddressMask is 0xFFFFFFFFFFFF and the payload
\* length is sizeof (EFI_PLATFORM_MEMORY_ERROR_DATA), for either SRAM.
C8_UncorrectableOnly ==
  (SramDone /\ 1 \in call.regs.ErrStatus /\ 0 \notin call.regs.ErrStatus) =>
    /\ sramRegion.Header.ErrorSeverity = EFI_ACPI_6_4_ERROR_SEVERITY_FATAL
    /\ sramRegion.Desc.ErrorSeverity = EFI_ACPI_6_4_ERROR_SEVERITY_FATAL
    /\ sramRegion.Payload.PhysicalAddress = call.regs.ErrAddr
    /\ sramRegion.Payload.PhysicalAddressMask = 0..47
    /\ sramRegion.Desc.ErrorDataLength = SizeofPlatformMemoryErrorData
    /\ call.CopyLength = SizeofPlatformMemoryErrorData

\* C9: an MMI handler invocation with a null buffer fails with
\* EFI_INVALID_PARAMETER and one whose *BufferSize is below the required
\* input size (CPU: sizeof (CPU_ERR_INFO), SRAM: sizeof (BOOLEAN)) fails with
\* EFI_BAD_BUFFER_SIZE; a failing invocation accesses no register, leaves
\* both firmware-reserved regions as they were and leaves *BufferSize as it
\* was.
C9_HandlerFailure ==
  [][(call'.op \in {"CpuErrorEventHandler", "SramErrorEventMmiHandler"})
       => LET required == IF call'.op = "CpuErrorEventHandler"
                          THEN SizeofCpuErrInfo ELSE SizeofBoolean
          IN /\ call'.Buffer.ptr = NULL => call'.Status = EFI_INVALID_PARAMETER
             /\ (call'.Buffer.ptr # NULL /\ call'.BufferSizeIn < required)
                  => call'.Status = EFI_BAD_BUFFER_SIZE
             /\ call'.Status # EFI_SUCCESS
                  => /\ call'.mmio = << >>
                     /\ cpuRegion' = cpuRegion
                     /\ sramRegion' = sramRegion
                     /\ call'.BufferSize = call'.BufferSizeIn]_vars

C9_Witness ==
  /\ call.op = "CpuErrorEventHandler"
  /\ call.Status = EFI_BAD_BUFFER_SIZE
  /\ call.BufferSize = SizeofCpuErrInfo - 1
  /\ cpuRegion # CpuRegionInit

\* The names of the descriptor-get functions.
DescGetNames == {"CpuErrorSourceDescInfoGet", "SramErrorSourceDescInfoGet"}

\* C10 as stated: a fill call (non-null Buffer) whose buffer is shorter than
\* the length a query call reports fails with EFI_BUFFER_TOO_SMALL and
\* modifies neither the caller's buffer nor the firmware-reserved region.
C10_ShortFillFails ==
  [][(call'.op \in DescGetNames
        /\ call'.args.Buffer.ptr # NULL
        /\ call'.args.LengthPtr # NULL /\ call'.args.CountPtr # NULL
        /\ call'.args.Buffer.cap < call'.ErrorSourcesLength)
       => /\ call'.Status = EFI_BUFFER_TOO_SMALL
          /\ call'.Buffer.Written = 0
          /\ cpuRegion' = cpuRegion
          /\ sramRegion' = sramRegion]_vars

\* C10 as amended: the descriptor-get functions are not told the size of the
\* caller's buffer.  With both output pointers valid they return
\* EFI_BUFFER_TOO_SMALL exactly when Buffer is null, and that call modifies
\* neither a caller buffer nor the region; a fill call returns EFI_SUCCESS,
\* re-initialises the region and stores one whole descriptor through Buffer,
\* also when the caller's buffer is shorter than the reported length.
C10_FillIgnoresCapacity ==
  [][(call'.op \in DescGetNames
        /\ call'.args.LengthPtr # NULL /\ call'.args.CountPtr # NULL)
       => /\ call'.ErrorSourcesLength = call'.ErrorSourcesCount * SizeofGhesV2
          /\ call'.Status = EFI_BUFFER_TOO_SMALL <=> call'.args.Buffer.ptr = NULL
          /\ call'.args.Buffer.ptr = NULL
               => /\ call'.Buffer = NoBuffer
                  /\ cpuRegion' = cpuRegion
                  /\ sramRegion' = sramRegion
          /\ call'.args.Buffer.ptr # NULL
               => /\ call'.Status = EFI_SUCCESS
                  /\ call'.Buffer.Written = SizeofGhesV2
                  /\ call'.Buffer.Descriptor =
                       IF call'.op = "CpuErrorSourceDescInfoGet"
                       THEN CpuErrorDescriptor ELSE SramErrorDescriptor
                  /\ source = "Cpu" => cpuRegion' = CpuRegionInit
                  /\ source = "Sram" => sramRegion' = SramRegionInit]_vars

C10_Witness ==
  /\ call.op = "CpuErrorSourceDescInfoGet"
  /\ call.Status = EFI_SUCCESS
  /\ call.args.Buffer.cap < call.ErrorSourcesLength
  /\ call.Buffer.Written = SizeofGhesV2
  /\ call.Buffer.Written > call.args.Buffer.cap
  /\ cpuRegion = CpuRegionInit

\* C11: a descriptor-get call with a null Buffer and both output pointers
\* valid stores the source count in *ErrorSourcesCount and count *
\* sizeof (GHESv2 descriptor) in *ErrorSourcesLength, returns
\* EFI_BUFFER_TOO_SMALL and leaves the firmware-reserved regions as they were.
C11_Query ==
  [][(call'.op \in DescGetNames /\ call'.args.Buffer.ptr = NULL
        /\ call'.args.LengthPtr # NULL /\ call'.args.CountPtr # NULL)
       => /\ call'.Status = EFI_BUFFER_TOO_SMALL
          /\ call'.ErrorSourcesCount =
               IF call'.op = "CpuErrorSourceDescInfoGet"
               THEN PcdCpuErrorSourceCount ELSE PcdSramErrorSourceCount
          /\ call'.ErrorSourcesLength = call'.ErrorSourcesCount * SizeofGhesV2
          /\ cpuRegion' = cpuRegion
          /\ sramRegion' = sramRegion]_vars

C11_Witness ==
  /\ call.op = "SramErrorSourceDescInfoGet"
  /\ call.args.Buffer.ptr = NULL
  /\ call.Status = EFI_BUFFER_TOO_SMALL
  /\ call.ErrorSourcesLength = SizeofGhesV2
  /\ sramRegion.Header.ErrorDataEntryCount = 1

\* C12: a descriptor-get call with a non-null Buffer returns EFI_SUCCESS,
\* zeroes the firmware-reserved region of its source and then stores both
\* pointers in it: the Error Status Register slot holds base + 16, the Read
\* Ack Register slot holds the address of the acknowledgment data; one
\* descriptor is stored in the caller's buffer.
C12_FillPublishesRegion ==
  (call.op \in DescGetNames /\ call.args.Buffer.ptr # NULL
     /\ call.args.LengthPtr # NULL /\ call.args.CountPtr # NULL)
    => /\ call.Status = EFI_SUCCESS
       /\ call.Buffer.Written = SizeofGhesV2
       /\ call.op = "CpuErrorSourceDescInfoGet" =>
            cpuRegion =
              [ZeroCpuRegion EXCEPT
                 !.ErrorStatusRegister =
                    Addr("PcdCpuErrorDataBase", ErrorStatusDataOffset),
                 !.ReadAckRegister =
                    Addr("PcdCpuErrorDataBase", CpuReadAckDataOffset)]
       /\ call.op = "SramErrorSourceDescInfoGet" =>
            sramRegion =
              [ZeroSramRegion EXCEPT
                 !.ErrorStatusRegister =
                    Addr("PcdSramErrorDataBase", ErrorStatusDataOffset),
                 !.ReadAckRegister =
                    Addr("PcdSramErrorDataBase", SramReadAckDataOffset)]

\* C13: a descriptor-get call whose ErrorSourcesLength or ErrorSourcesCount
\* pointer is null returns EFI_INVALID_PARAMETER whatever Buffer is, and
\* modifies nothing: the caller's length and count variables keep the 0 they
\* held, nothing is stored through Buffer and both firmware-reserved regions
\* stay as they were.
C13_NullOutputPointer ==
  [][(call'.op \in DescGetNames
        /\ (call'.args.LengthPtr = NULL \/ call'.args.CountPtr = NULL))
       => /\ call'.Status = EFI_INVALID_PARAMETER
          /\ call'.ErrorSourcesLength = 0
          /\ call'.ErrorSourcesCount = 0
          /\ call'.args.Buffer.ptr # NULL
               => /\ call'.Buffer.Written = 0
                  /\ call'.Buffer.Descriptor = ZeroBytes
          /\ cpuRegion' = cpuRegion
          /\ sramRegion' = sramRegion]_vars

C13_Witness ==
  /\ call.op = "CpuErrorSourceDescInfoGet"
  /\ call.args.CountPtr = NULL
  /\ call.args.Buffer.ptr # NULL
  /\ call.Status = EFI_INVALID_PARAMETER
  /\ cpuRegion.Header.ErrorDataEntryCount = 1

\* C14: for every snapshot the CPU handler accepts, whatever value its
\* SecurityState field holds, the payload length written is at most the
\* published MaxRawDataLength, header + descriptor + payload lie within the
\* published ErrorStatusBlockLength, and the final copy reads no byte behind
\* the local CPU_ERR_SECTION_DATA.
C14_PayloadWithinPublishedLengths ==
  CpuDone =>
    /\ cpuRegion.Desc.ErrorDataLength <= CpuErrorDescriptor.MaxRawDataLength
    /\ SizeofGenericErrorStatus + SizeofGenericErrorDataEntry + call.CopyLength
         <= CpuErrorDescriptor.ErrorStatusBlockLength
    /\ call.CopyLength <= SizeofCpuErrSectionData

\* C17: the correctable test takes precedence.  When the SRAM status read
\* has both the CE and the UE bit, the record is Corrected and only the
\* correctable-valid flag is set; when the CPU ErrStatus has a correctable
\* bit and the deferred-error bit, the record is Corrected, the latent-error
\* flag is clear and ErrorCorrected is 1.
C17_CorrectableFirst ==
  /\ (SramDone /\ {0, 1} \subseteq call.regs.ErrStatus) =>
       /\ sramRegion.Header.ErrorSeverity = EFI_ACPI_6_4_ERROR_SEVERITY_CORRECTED
       /\ sramRegion.Desc.ErrorSeverity = EFI_ACPI_6_4_ERROR_SEVERITY_CORRECTED
       /\ sramRegion.Header.CorrectableErrorValid = 1
       /\ sramRegion.Header.UncorrectableErrorValid = 0
  /\ (CpuDone /\ call.Buffer.data.ErrStatus \cap {24, 25} # {}
        /\ 23 \in call.Buffer.data.ErrStatus) =>
       /\ cpuRegion.Header.ErrorSeverity = EFI_ACPI_6_3_ERROR_SEVERITY_CORRECTED
       /\ cpuRegion.Desc.ErrorSeverity = EFI_ACPI_6_3_ERROR_SEVERITY_CORRECTED
       /\ ~(EFI_ERROR_SECTION_FLAGS_LATENT_ERROR \subseteq cpuRegion.Desc.Flags)
       /\ cpuRegion.Payload["CpuErrInfo"].ErrorInfo.ErrorCorrected = 1

\* C18: in the error-information record the CPU handler stores, Level is
\* (ErrMisc0 & LVL_MASK) >> LVL_SHIFT, bits 1-3 of ErrMisc0, for the Cache and
\* for the TLB error type, and ErrorCorrected is 1 exactly when ErrStatus has
\* a correctable bit.
C18_LevelAndCorrected ==
  CpuDone =>
    /\ cpuRegion.Payload["CpuErrInfo"].ErrorInfo.Level =
         ToNat({b - 1 : b \in call.Buffer.data.ErrMisc0 \cap {1, 2, 3}})
    /\ cpuRegion.Payload["CpuErrInfo"].ErrorInfo.ErrorCorrected =
         IF call.Buffer.data.ErrStatus \cap {24, 25} # {} THEN 1 ELSE 0

\* C20: after the fill call, across any later handler invocations, the
\* descriptor's ErrorStatusAddress designates the slot at base + 8, that slot
\* holds base + 16, base + 16 is where the handler stores the status block,
\* and no handler store touches the two pointer slots below offset 16.
C20_StatusAddressChain ==
  /\ cpuRegion[SlotAt(CpuErrorDescriptor.ErrorStatusAddress.off)] =
       Addr("PcdCpuErrorDataBase", ErrorStatusDataOffset)
  /\ sramRegion[SlotAt(SramErrorDescriptor.ErrorStatusAddress.off)] =
       Addr("PcdSramErrorDataBase", ErrorStatusDataOffset)
  /\ cpuRegion.ReadAckRegister = CpuRegionInit.ReadAckRegister
  /\ sramRegion.ReadAckRegister = SramRegionInit.ReadAckRegister
  /\ (call.op \in DescGetNames /\ call.Status = EFI_SUCCESS) =>
       call.Buffer.Descriptor.ErrorStatusAddress =
         Addr(IF call.op = "CpuErrorSourceDescInfoGet"
              THEN "PcdCpuErrorDataBase" ELSE "PcdSramErrorDataBase",
              ErrorStatusRegisterOffset)
  /\ CpuDone =>
       /\ call.stores[1].addr = cpuRegion.ErrorStatusRegister
       /\ \A i \in DOMAIN call.stores :
            /\ call.stores[i].addr.base = "PcdCpuErrorDataBase"
            /\ call.stores[i].addr.off >= ErrorStatusDataOffset
  /\ SramDone =>
       /\ call.stores[1].addr = sramRegion.ErrorStatusRegister
       /\ \A i \in DOMAIN call.stores :
            /\ call.stores[i].addr.base = "PcdSramErrorDataBase"
            /\ call.stores[i].addr.off >= ErrorStatusDataOffset

\* A CPU record stored at base + 16 by an invocation that followed an
\* earlier one: the latent-error flag of a past deferred error is still set
\* while the current ErrStatus has no DE bit.
C20_Witness ==
  /\ CpuDone
  /\ call.stores[1].addr = Addr("PcdCpuErrorDataBase", ErrorStatusDataOffset)
  /\ cpuRegion.ErrorStatusRegister = call.stores[1].addr
  /\ cpuRegion.Header.ErrorDataEntryCount = 1
  /\ EFI_ERROR_SECTION_FLAGS_LATENT_ERROR \subseteq cpuRegion.Desc.Flags
  /\ 23 \notin call.Buffer.data.ErrStatus

-----------------------------------------------------------------------------
(* Properties of the drivers' entry points.                                 *)

\* C19: the entry point registers the MMI handler before it installs the
\* protocol; a failed registration is returned with no protocol installed;
\* a failed installation is returned with the handler unregistered; on
\* return the handler is registered iff the protocol is installed iff the
\* status is EFI_SUCCESS.
C19_InitOrder ==
  /\ driver.protocol => driver.handler
  /\ driver.pc = "InstallErrorSourceDescProtocol" =>
       driver.handler /\ ~driver.protocol
  /\ driver.pc = "returned" =>
       /\ driver.handler <=> driver.protocol
       /\ driver.protocol <=> (driver.Status = EFI_SUCCESS)
       /\ EFI_ERROR(driver.registerStatus) =>
            /\ driver.Status = driver.registerStatus
            /\ driver.installStatus = "none"
       /\ (~EFI_ERROR(driver.registerStatus)
             /\ EFI_ERROR(driver.installStatus)) =>
            driver.Status = driver.installStatus
  /\ (call.op \in {"CpuErrorEventHandler", "SramErrorEventMmiHandler"}) =>
       driver.protocol

\* The entry point returned the failure of the protocol installation after
\* it had registered the handler and unregistered it again.
C19_Witness ==
  /\ driver.pc = "returned"
  /\ driver.registerStatus = EFI_SUCCESS
  /\ driver.installStatus = EFI_OUT_OF_RESOURCES
  /\ driver.Status = EFI_OUT_OF_RESOURCES
  /\ ~driver.handler /\ ~driver.protocol

-----------------------------------------------------------------------------
(* Properties of overlapping invocations.                                   *)

\* The fields of a record that the invocation r has stored so far.
Stored(r) ==
  IF r.pc = "idle" THEN {} ELSE {r.done[i].field : i \in DOMAIN r.done}

\* The PCD bases the invocation r has stored to so far.
StoredBases(r) ==
  IF r.pc = "idle" THEN {} ELSE {r.done[i].addr.base : i \in DOMAIN r.done}

-----------------------------------------------------------------------------
(* Properties of the CXL platform protocol.                                 *)

\* C16: CxlGetRemoteMem returns EFI_SUCCESS; a requested *MemCount above the
\* number of remote memory nodes discovered so far becomes that number, any
\* other is left as it is, and exactly *MemCount entries, the first ones
\* discovered in discovery order, are copied to the caller;
\* CxlGetRemoteMemCount returns the number discovered.
C16_RemoteMem ==
  /\ call.op = "CxlGetRemoteMem" =>
       /\ call.Status = EFI_SUCCESS
       /\ call.MemCount = IF call.MemCountIn > Len(cxl.Discovered)
                          THEN Len(cxl.Discovered) ELSE call.MemCountIn
       /\ call.RemoteMemInfo = SubSeq(cxl.Discovered, 1, call.MemCount)
  /\ call.op = "CxlGetRemoteMemCount" => call.Result = Len(cxl.Discovered)

-----------------------------------------------------------------------------
(* Further properties of the handlers' records.                             *)

\* C24: in the CPU payload ContextInfoNum is the number of context blocks
\* present (3 for NonSecure, 0 for Secure), ErrInfoNum is 1 and
\* SectionLength is the descriptor's ErrorDataLength.
C24_ContextInfoNum ==
  (CpuDone /\ call.Buffer.data.SecurityState \in {SECURE, NON_SECURE}) =>
    /\ cpuRegion.Payload["CpuInfo"].ContextInfoNum =
         IF call.Buffer.data.SecurityState = NON_SECURE THEN 3 ELSE 0
    /\ cpuRegion.Payload["CpuInfo"].ErrInfoNum = 1
    /\ cpuRegion.Payload["CpuInfo"].SectionLength =
         cpuRegion.Desc.ErrorDataLength

\* The snapshot snap with the register-context arrays of capture ctx.
WithContext(snap, ctx) ==
  [snap EXCEPT !.ErrCtxGpr = <<"Gpr", ctx>>,
               !.ErrCtxEl1Reg = [MPIDR_EL1 |-> <<"MPIDR_EL1", ctx>>,
                                 MIDR_EL1 |-> <<"MIDR_EL1", ctx>>,
                                 Other |-> <<"El1", ctx>>],
               !.ErrCtxEl2Reg = <<"El2", ctx>>,
               !.ErrCtxEl3Reg = <<"El3", ctx>>]

\* C25: a Secure-state snapshot and any snapshot that differs from it only
\* in the register-context arrays leave the same bytes in the region: the
\* invocation wrote what it would have written for the other arrays.
C25_SecureContextIndependent ==
  [][(call'.op = "CpuErrorEventHandler" /\ call'.Status = EFI_SUCCESS
        /\ call'.Buffer.data.SecurityState = SECURE)
     => \A ctx \in {"ctxA", "ctxB"} :
          cpuRegion' = CpuRecord(cpuRegion,
                                 WithContext(call'.Buffer.data, ctx),
                                 call'.stack)]_vars

\* C26: the payload bytes the CPU handler copies are determined by the
\* snapshot: whatever the handler's stack held, every field within the
\* copied length holds what the same snapshot gives on any other stack.
C26_PayloadOfSnapshotOnly ==
  (CpuDone /\ call.Buffer.data.SecurityState \in {SECURE, NON_SECURE}) =>
    \A stack \in StackValues :
      \A f \in {g \in CpuPayloadFields : FieldOffset(g) < call.CopyLength} :
        cpuRegion.Payload[f] = SectionData(call.Buffer.data, stack)[f]

\* The multi-bit type field of ERRCODE, bits 3-4.
MultibitType(ErrCode) ==
  ToNat(ShiftRight(BitAnd(ErrCode, ECC_ERR_CODE_MBIT_TYPE_MASK),
                   ECC_ERR_CODE_MBIT_TYPE_SHIFT))

\* C28: the SRAM handler's multiple-error flags follow ERRCODE alone: both 0
\* when ERRCODE reads 0, else MultipleCorrectableErrors is 1 iff the type
\* field is 1 and MultipleUncorrectableErrors is 1 iff it is 2.
C28_MultibitFlags ==
  SramDone =>
    /\ sramRegion.Header.MultipleCorrectableErrors =
         IF call.regs.ErrCode # {}
              /\ MultibitType(call.regs.ErrCode) = ECC_ERR_CODE_MBIT_CE_ERR
         THEN 1 ELSE 0
    /\ sramRegion.Header.MultipleUncorrectableErrors =
         IF call.regs.ErrCode # {}
              /\ MultibitType(call.regs.ErrCode) = ECC_ERR_CODE_MBIT_UE_ERR
         THEN 1 ELSE 0


\* C27: every status bit the SRAM handler clears by writing ERRSTATUS back
\* was in the status value it classified and reported, so an error raised
\* between the classification read and the clear read is never cleared
\* unrecorded.
C27_ClearedBitsWereClassified ==
  SramDone => call.regs.ClearStatus \subseteq call.regs.ErrStatus

\* C23: RemoteMemCount never exceeds the five entries of RemoteMemConfig and
\* no store of UpdateCdatData lands beyond the array.
C23_RemoteMemBounded ==
  /\ cxl.RemoteMemCount <= RemoteMemConfigSize
  /\ cxl.Beyond = << >>


\* C29: UpdateCdatData terminates for every response, also one whose
\* structure at the current index is not a DSMAS: while the loop is running
\* a pass changes the state (it leaves the loop or advances Index), so no
\* state repeats for ever.
C29_EveryPassProgresses ==
  (cxl.loop.active /\ cxl.RemoteMemCount < MaxRemoteMem) =>
     ENABLED <<UpdateCdatDataLoop>>_vars


-----------------------------------------------------------------------------
(* Properties of the DOE exchange.                                          *)

\* The accesses of one pass of the request loop up to the read of the
\* control register: the status read of the busy check, then the three
\* DWORDs of the request object to the write mailbox.
RequestPass(req) ==
  <<BusRead(DOE_STATUS_REG),
    BusWrite(DOE_WRITE_DATA_MAILBOX_REG, RequestDword(req, 0)),
    BusWrite(DOE_WRITE_DATA_MAILBOX_REG, RequestDword(req, 1)),
    BusWrite(DOE_WRITE_DATA_MAILBOX_REG, RequestDword(req, 2)),
    BusRead(DOE_CONTROL_REG)>>

\* C22: every pass of SendDoeCommand's request loop, the first and each later
\* one, checks DOE Busy, writes the 3 DWORDs of the request carrying the
\* current EntryHandle to the write mailbox, sets DOE Go and then receives
\* the response; a successful return follows the response for handle 0xFFFF.
C22_RequestPassOrder ==
  /\ run["Doe"].pc = "DoeReceiveResponse" =>
       /\ Len(run["Doe"].bus) = 6
       /\ SubSeq(run["Doe"].bus, 1, 5) = RequestPass(run["Doe"].CxlDoeReq)
       /\ run["Doe"].bus[6].op = "Write"
       /\ run["Doe"].bus[6].Reg = DOE_CONTROL_REG
       /\ DOE_CTRL_DOE_GO \subseteq run["Doe"].bus[6].Val
  /\ (run["Doe"].pc = "returned" /\ ~EFI_ERROR(run["Doe"].Status)) =>
       run["Doe"].CxlDoeReq.EntryHandle = CXL_DOE_TABLE_ENTRY_HANDLE_LAST

\* C30: for every length of Data Object Header 2 that passes the
\* Length >= 2 check, Length - 3 does not wrap in the UINT16 Length and
\* every store DoeRespCdatData[Index] has Index < TOTAL_CDAT_ENTRY.
C30_PayloadCountInArray ==
  run["Doe"].rx.read =>
    /\ run["Doe"].rx.Count = run["Doe"].rx.Length - 3
    /\ run["Doe"].rx.Count <= TOTAL_CDAT_ENTRY
    /\ run["Doe"].rx.Past = 0


-----------------------------------------------------------------------------
(* Properties of invocations for the same source.                           *)

\* The invocation r stored a whole record.
Completed(r) == r.pc = "returned" /\ r.Status = EFI_SUCCESS

\* No invocation is storing, and the region holds a record whose header
\* DataLength is that of one invocation's snapshot while its descriptor
\* ErrorDataLength or its processor record is that of the other's, the two
\* snapshots declaring different lengths.
MixedRecord ==
  /\ \A p \in Invocations : run[p].pc # "storing"
  /\ \E p \in Invocations, q \in Invocations :
       /\ p # q /\ Completed(run[p]) /\ Completed(run[q])
       /\ CpuDataLength(run[p].snap) # CpuDataLength(run[q].snap)
       /\ cpuRegion.Header.DataLength = CpuDataLength(run[p].snap)
       /\ \/ cpuRegion.Desc.ErrorDataLength =
               CpuDesc(ZeroDesc, run[q].snap).ErrorDataLength
          \/ cpuRegion.Payload["CpuInfo"] =
               SectionData(run[q].snap, run[q].stack)["CpuInfo"]

====
